---- MODULE Spec2Model ----
(***************************************************************************)
(* Birdieo vision pipeline: the PersonDetection component (model loading,  *)
(* the requestAnimationFrame detection loop, enrichment of predictions),   *)
(* its parent LiveGolfCam, and GolfVision's matching of detections to the  *)
(* roster of expected players.                                             *)
(*                                                                         *)
(*   Spec      the life cycle of PersonDetection under LiveGolfCam         *)
(*   SpecPipe  one frame through detectFrame and GolfVision.handleDetection*)
(*   SpecColor one call of analyzeClothingColor on a box of the frame      *)
(*   SpecRgb   one call of categorizeColor                                 *)
(*   SpecLog   the detection loop under GolfVision with its log requests   *)
(*   SpecCam   GolfVision's camera stream                                  *)
(*   SpecPhoto CameraInterface as CheckinFlow renders it                   *)
(*   SpecProps the detection loop under GolfVision while its props change  *)
(*                                                                         *)
(* and the components of the check-in application around it:               *)
(*                                                                         *)
(*   SpecCapture  the camera modal CameraCapture and its MediaStreams      *)
(*   SpecAuth     AuthProvider: token, user and its requests              *)
(*   SpecCheckin  CheckinFlow: steps, camera modal, analysis, submission   *)
(*   SpecRound    RoundStart: photo uploads and the step they lead to      *)
(*   SpecDetails  RoundDetails: the simulated playback of a clip            *)
(***************************************************************************)
EXTENDS Integers, Sequences, FiniteSets, TLC

VARIABLES
    \* ---- LiveGolfCam (LiveGolfCam.js 19-138)
    isStreaming,        \* useState(false): PersonDetection is mounted iff TRUE
    isDetectionActive,  \* useState(false): the isActive prop of PersonDetection
    lgcDetections,      \* useState([]): LiveGolfCam's detections
    \* ---- the mounted PersonDetection instance (LiveGolfCam.js 400-616)
    model,              \* useState(null): TRUE when a loaded model is held
    isLoading,          \* useState(false)
    pdDetections,       \* useState([]): PersonDetection's detections
    loads,              \* cocoSsd.load() promises of the mounted instance still pending
    loops,              \* detection loops alive: loop kind -> how many
    ev,                 \* what the last step did (calls made, cycle begun / ended)
    \* ---- one frame through the pipeline under GolfVision (SpecPipe)
    pFrame,             \* what model.detect resolves to, with the pixels under each box
    pTargets,           \* targetClothingColors prop
    pRoster,            \* expectedPlayers prop
    pRoundId,           \* roundId prop
    pNow,               \* Date.now()
    pCycle,             \* outcome of the last cycle: "none", "ok", "error"
    pEnriched,          \* the array passed to onDetection by the last cycle
    gvDetections,       \* GolfVision useState([]): detections
    matchedPlayers,     \* GolfVision useState([]): matchedPlayers
    pLogged,            \* body.detections of the POST /vision/detection-event issued
    pRuns,              \* cycles completed without error on the frame, up to 2
    pPrevEnriched,      \* the array the cycle before the last passed to onDetection
    pPrevMatched,       \* the matches of the cycle before the last
    \* ---- one call of analyzeClothingColor (SpecColor)
    cBox,               \* bbox of the detection
    cImg,               \* the frame under the box
    cCounts,            \* colorCounts when the sampling loop ended
    cColor,             \* the value returned, "none" before the call
    \* ---- one call of categorizeColor (SpecRgb)
    rgb,                \* the arguments r, g, b
    label,              \* the value returned, "none" before the call
    \* ---- the detection loop under GolfVision and its log requests (SpecLog)
    gLoop,              \* "inflight" (awaiting model.detect), "scheduled", "stopped"
    gLogs,              \* POST /vision/detection-event requests pending
    gLogEv,             \* how the last request ended, and whether a cycle came after
    \* ---- GolfVision's camera (SpecCam)
    camRoundId,         \* roundId prop
    camStreaming,       \* useState(false): isStreaming
    streamRef,          \* streamRef.current: the id of a MediaStream, 0 for null
    liveStreams,        \* ids of the MediaStreams whose tracks are live
    camPending,         \* getUserMedia requests pending
    camAcquired,        \* MediaStreams acquired so far
    \* ---- CameraInterface under CheckinFlow (SpecPhoto)
    activeCamera,       \* CheckinFlow useState(null): photoType, isActive = !!activeCamera
    photo,              \* useState(null): the photo type the photo held was taken for
    isReady,            \* useState(false)
    blobs,              \* canvas.toBlob callbacks pending: photo type -> how many
    reported,           \* the onPhotoTaken calls made: <<type of the blob, type reported>>
    \* ---- the closure of the running detection loop under GolfVision (SpecProps)
    propLoop,           \* "none", or the running loop: "inflight" / "scheduled"
    capTargets,         \* targetClothingColors as detectFrame's closure holds it
    capRoster,          \* expectedPlayers as the onDetection of that closure holds it
    propLast,           \* the last operation
    \* ---- CameraCapture (SpecCapture)
    ccOpen,             \* the isOpen prop
    ccPermission,       \* useState('prompt'): permissionState
    ccFacing,           \* useState('user'): facingMode
    ccStreaming,        \* useState(false): isStreaming
    ccStreamRef,        \* streamRef.current: id of the MediaStream held, 0 for null
    ccLive,             \* ids of the MediaStreams acquired whose tracks are live
    ccQueries,          \* navigator.permissions.query promises pending
    ccPending,          \* startCamera calls waiting in their Promise.race
    ccLate,             \* getUserMedia promises pending whose race has timed out
    ccAcquired,         \* MediaStreams acquired so far
    ccCalls,            \* getUserMedia calls made so far
    ccOpens,            \* how often the modal was opened so far
    \* ---- AuthProvider (SpecAuth)
    authUser,           \* useState(null): user; the token its data was issued for, 0 for null
    authToken,          \* useState(localStorage.getItem('birdieo_token')): a token id, 0 for null
    authLoading,        \* useState(true): loading
    authMe,             \* the tokens whose GET /auth/me request of verifyToken is pending
    authPosts,          \* POST /auth/login and /auth/register requests pending
    authIssued,         \* tokens issued so far
    authSince,          \* the last of: "logout", "login" (a login or register that succeeded)
    \* ---- CheckinFlow (SpecCheckin)
    ckStep,             \* useState(1): step
    ckHanded,           \* user?.handedness is set (saved in the profile)
    ckLoading,          \* useState(false): loading
    ckCameraOpen,       \* useState(false): cameraOpen
    ckPhotoType,        \* useState(null): currentPhotoType
    ckForm,             \* what checkinData holds: "course", "handedness", "descriptor", photo types
    ckAnalyzing,        \* useState(false): analyzingPhoto
    ckAiAnalysis,       \* useState(null): aiAnalysis is set
    ckShowVerification, \* useState(false): showVerification
    ckAnalyses,         \* analyzeClothing calls pending: capture serial, awaited by handleCameraCapture?
    ckSerial,           \* captures begun so far; the modal shown belongs to capture ckSerial
    ckSubmit,           \* handleSubmit: "none", or the request it awaits
    ckDone,             \* the requests of the last handleSubmit that succeeded
    ckEv,               \* what the last step did
    \* ---- RoundStart (SpecRound)
    rsStep,             \* useState(1): step
    rsRound,            \* useState(null): currentRound is set
    rsPhotos,           \* useState({}): the keys of photos
    rsCamera,           \* useState(null): activeCamera
    rsUploading,        \* useState(false): isUploading
    rsUploads,          \* handlePhotoTaken calls awaiting their upload: type, completedPhotos.length seen
    rsTaken,            \* handlePhotoTaken calls made so far
    rsEv,               \* what the last step did
    \* ---- RoundDetails (SpecDetails)
    rdPlaying,          \* useState(false): isVideoPlaying
    rdProgress,         \* useState(0): videoProgress, in timer steps (MaxSteps stands for 100)
    rdTimers,           \* the progressInterval timers alive: playVideo call -> its currentProgress
    rdResets,           \* setTimeout callbacks pending that reset videoProgress
    rdPlays,            \* playVideo calls made so far
    rdPaused            \* Pause was pressed and Play has not been pressed since

lifeVars == <<isStreaming, isDetectionActive, lgcDetections, model, isLoading,
              pdDetections, loads, loops, ev>>
pipeVars == <<pFrame, pTargets, pRoster, pRoundId, pNow, pCycle, pEnriched,
              gvDetections, matchedPlayers, pLogged, pRuns, pPrevEnriched,
              pPrevMatched>>
colorVars == <<cBox, cImg, cCounts, cColor>>
rgbVars == <<rgb, label>>
logVars == <<gLoop, gLogs, gLogEv>>
camVars == <<camRoundId, camStreaming, streamRef, liveStreams, camPending,
             camAcquired>>
photoVars == <<activeCamera, photo, isReady, blobs, reported>>
propVars == <<propLoop, capTargets, capRoster, propLast>>
visionVars == <<lifeVars, pipeVars, colorVars, rgbVars, logVars, camVars, photoVars,
                propVars>>
capVars == <<ccOpen, ccPermission, ccFacing, ccStreaming, ccStreamRef, ccLive,
             ccQueries, ccPending, ccLate, ccAcquired, ccCalls, ccOpens>>
authVars == <<authUser, authToken, authLoading, authMe, authPosts, authIssued,
              authSince>>
ckVars == <<ckStep, ckHanded, ckLoading, ckCameraOpen, ckPhotoType, ckForm, ckAnalyzing,
            ckAiAnalysis, ckShowVerification, ckAnalyses, ckSerial, ckSubmit, ckDone,
            ckEv>>
rsVars == <<rsStep, rsRound, rsPhotos, rsCamera, rsUploading, rsUploads, rsTaken,
            rsEv>>
rdVars == <<rdPlaying, rdProgress, rdTimers, rdResets, rdPlays, rdPaused>>
appVars == <<capVars, authVars, ckVars, rsVars, rdVars>>
sideVars == <<colorVars, rgbVars, logVars, camVars, photoVars, propVars, appVars>>
vars == <<lifeVars, pipeVars, sideVars>>

----------------------------------------------------------------------------
(* Bounds of the model *)

MaxPreds  == 2    \* predictions returned by one model.detect call
MaxRoster == 2    \* expected players
MaxTime   == 1    \* clock values 0..MaxTime
MaxLoops  == 2    \* detection loops alive at once
MaxLoads  == 2    \* cocoSsd.load() calls in flight at once
MaxBoxX   == 20   \* largest x of a box given to analyzeClothingColor
MaxBoxY   == 2    \* largest y
MaxBoxW   == 20   \* largest width
MaxBoxH   == 8    \* largest height
MaxLogs   == 2    \* log requests pending at once
MaxStreams == 3   \* MediaStreams acquired in a run
MaxPending == 2   \* getUserMedia requests pending at once
MaxBlobs  == 1    \* canvas.toBlob callbacks pending per photo type

(* Program constants *)

ScoreThreshold == 50     \* prediction.score > 0.5, scores in hundredths
AlphaThreshold == 128    \* alpha > 128
UpperTenths    == 4      \* height * 0.4
SampleStride   == 10     \* i += 40 over RGBA bytes: every 10th pixel

\* null / undefined
Null == "<null>"

----------------------------------------------------------------------------
(* Strings *)

\* String.prototype.toLowerCase on the strings of the model
toLowerCase(s) ==
    CASE s = "Blue"  -> "blue"
      [] s = "BLUE"  -> "blue"
      [] s = "Red"   -> "red"
      [] s = "Khaki" -> "khaki"
      [] s = "Unknown" -> "unknown"
      [] OTHER       -> s

\* s?.toLowerCase()
optLowerCase(s) == IF s = Null THEN Null ELSE toLowerCase(s)

\* Boolean(s) of a string or undefined
Truthy(s) == s # Null /\ s # ""

\* Array.prototype.includes on a sequence
includes(seq, x) == \E i \in 1..Len(seq) : seq[i] = x

----------------------------------------------------------------------------
(* PersonDetection: colour classification *)

\* mutant: the orange rule is tried before the red rule
categorizeColor_OrangeFirst(r, g, b) ==
    IF r > 200 /\ g > 200 /\ b > 200 THEN "white"
    ELSE IF r < 80 /\ g < 80 /\ b < 80 THEN "black"
    ELSE IF r > 100 /\ g > 80 /\ b < 80 THEN "orange"
    ELSE IF r > g + 50 /\ r > b + 50 THEN "red"
    ELSE IF b > r + 50 /\ b > g + 50 THEN "blue"
    ELSE IF g > r + 50 /\ g > b + 50 THEN "green"
    ELSE IF r > 150 /\ g > 150 /\ b < 100 THEN "yellow"
    ELSE IF r > 100 /\ g < 80 /\ b > 100 THEN "purple"
    ELSE IF r > 80 /\ g > 60 /\ b < 60 THEN "brown"
    ELSE "gray"

categorizeColor(r, g, b) ==
    IF r > 200 /\ g > 200 /\ b > 200 THEN "white"
    ELSE IF r < 80 /\ g < 80 /\ b < 80 THEN "black"
    ELSE IF r > g + 50 /\ r > b + 50 THEN "red"
    ELSE IF b > r + 50 /\ b > g + 50 THEN "blue"
    ELSE IF g > r + 50 /\ g > b + 50 THEN "green"
    ELSE IF r > 150 /\ g > 150 /\ b < 100 THEN "yellow"
    ELSE IF r > 100 /\ g < 80 /\ b > 100 THEN "purple"
    ELSE IF r > 100 /\ g > 80 /\ b < 80 THEN "orange"
    ELSE IF r > 80 /\ g > 60 /\ b < 60 THEN "brown"
    ELSE "gray"

\* colorCounts[c] = (colorCounts[c] || 0) + 1, the object's keys kept in
\* insertion order as a sequence of [k, n]
countColor(cc, c) ==
    IF \E i \in 1..Len(cc) : cc[i].k = c
    THEN [i \in 1..Len(cc) |-> IF cc[i].k = c THEN [k |-> c, n |-> cc[i].n + 1]
                                             ELSE cc[i]]
    ELSE Append(cc, [k |-> c, n |-> 1])

\* mutant: a pixel of alpha exactly 128 is counted (alpha >= 128)
RECURSIVE tallyColors_AtLeast(_, _)
tallyColors_AtLeast(data, cc) ==
    IF data = <<>> THEN cc
    ELSE LET px == Head(data)
         IN  tallyColors_AtLeast(Tail(data),
                 IF px.a >= AlphaThreshold
                 THEN countColor(cc, categorizeColor(px.r, px.g, px.b))
                 ELSE cc)

\* the for loop over the sampled pixels: data is the sequence of RGBA samples
\* the stride visits
RECURSIVE tallyColors(_, _)
tallyColors(data, cc) ==
    IF data = <<>> THEN cc
    ELSE LET px == Head(data)
         IN  tallyColors(Tail(data),
                 IF px.a > AlphaThreshold
                 THEN countColor(cc, categorizeColor(px.r, px.g, px.b))
                 ELSE cc)

\* mutant: with nothing counted the default bucket is returned
dominantColor_Gray(cc) ==
    IF cc = <<>> THEN "gray"
    ELSE LET best == CHOOSE i \in 1..Len(cc) :
                        /\ \A j \in 1..Len(cc) : cc[j].n <= cc[i].n
                        /\ \A j \in 1..(i - 1) : cc[j].n < cc[i].n
         IN  cc[best].k

\* mutant: of the entries with the largest count the last one is returned
dominantColor_LastMax(cc) ==
    IF cc = <<>> THEN "unknown"
    ELSE LET best == CHOOSE i \in 1..Len(cc) :
                        /\ \A j \in 1..Len(cc) : cc[j].n <= cc[i].n
                        /\ \A j \in (i + 1)..Len(cc) : cc[j].n < cc[i].n
         IN  cc[best].k

\* Object.entries(colorCounts).sort(([,a],[,b]) => b - a)[0]?.[0] || 'unknown':
\* the sort is stable, so the first entry with the largest count comes first
dominantColor(cc) ==
    IF cc = <<>> THEN "unknown"
    ELSE LET best == CHOOSE i \in 1..Len(cc) :
                        /\ \A j \in 1..Len(cc) : cc[j].n <= cc[i].n
                        /\ \A j \in 1..(i - 1) : cc[j].n < cc[i].n
         IN  cc[best].k

\* const upperBodyHeight = height * 0.4, as the canvas height and the long
\* arguments of putImageData / getImageData take it (fraction dropped)
upperBodyHeight(bbox) == (bbox[4] * UpperTenths) \div 10

\* a pixel of a canvas never painted: transparent black
Transparent == [r |-> 0, g |-> 0, b |-> 0, a |-> 0]

\* the pixel of an ImageData at column col, row row (from 0)
imagePixel(imageData, col, row) ==
    IF row * 10 < imageData.height * UpperTenths
    THEN IF 2 * col < imageData.width THEN imageData.img.ul ELSE imageData.img.ur
    ELSE imageData.img.lo

\* the temporary canvas (width x upperBodyHeight) after
\* ctx.putImageData(imageData, 0, 0, x, y, width, upperBodyHeight): the last
\* four arguments are the dirty rectangle, in the coordinates of imageData;
\* its pixels are copied to the same coordinates of the canvas, every other
\* pixel of the canvas staying transparent
tempPixel(imageData, bbox, col, row) ==
    IF /\ bbox[1] <= col /\ col < imageData.width
       /\ bbox[2] <= row /\ row < imageData.height
    THEN imagePixel(imageData, col, row)
    ELSE Transparent

\* the pixels the loop for (i = 0; i < data.length; i += 40) visits in
\* tempImageData.data, row-major over the temporary canvas
sampledData(imageData, bbox) ==
    LET W == bbox[3]
        H == upperBodyHeight(bbox)
        n == (W * H + SampleStride - 1) \div SampleStride
    IN  [k \in 1..n |->
            LET p == (k - 1) * SampleStride
            IN  tempPixel(imageData, bbox, p % W, p \div W)]

\* colorCounts when the loop of analyzeClothingColor ends
colorCounts(imageData, bbox) == tallyColors(sampledData(imageData, bbox), <<>>)

\* analyzeClothingColor(imageData, bbox): ctx.getImageData(0, 0, width,
\* upperBodyHeight) throws for a canvas without area, which its catch turns
\* into 'unknown'
analyzeClothingColor(imageData, bbox) ==
    IF bbox[3] = 0 \/ upperBodyHeight(bbox) = 0 THEN "unknown"
    ELSE dominantColor(colorCounts(imageData, bbox))

----------------------------------------------------------------------------
(* PersonDetection.detectFrame: one cycle's computation *)

\* mutant: the threshold itself is accepted (score >= 0.5)
isPersonDetection_AtLeast(p) == p.class = "person" /\ p.score >= ScoreThreshold

\* predictions.filter(p => p.class === 'person' && p.score > 0.5)
isPersonDetection(p) == p.class = "person" /\ p.score > ScoreThreshold

personDetections(predictions) == SelectSeq(predictions, isPersonDetection)

\* mutant: the target list is compared without regard to case
isTargetColor_AnyCase(targetClothingColors, clothingColor) ==
    \E i \in 1..Len(targetClothingColors) :
        toLowerCase(targetClothingColors[i]) = toLowerCase(clothingColor)

\* targetClothingColors.includes(clothingColor)
isTargetColor(targetClothingColors, clothingColor) ==
    includes(targetClothingColors, clothingColor)

\* const imageData = ctx.getImageData(x, y, width, height): the pixels of the
\* frame under the box of the detection
getImageData(detection) ==
    [width |-> detection.bbox[3], height |-> detection.bbox[4], img |-> detection.img]

\* the enrichedDetection object literal
enrichDetection(detection, targetClothingColors, now) ==
    LET clothingColor == analyzeClothingColor(getImageData(detection), detection.bbox)
    IN  [class         |-> detection.class,
         score         |-> detection.score,
         bbox          |-> detection.bbox,
         clothingColor |-> clothingColor,
         isTarget      |-> isTargetColor(targetClothingColors, clothingColor),
         timestamp     |-> now,
         id            |-> <<"person", detection.bbox[1], detection.bbox[2], now>>]

\* ctx.getImageData(x, y, width, height) throws IndexSizeError when the
\* rectangle has no area
getImageDataThrows(bbox) == bbox[3] = 0 \/ bbox[4] = 0

\* the body of the try block: [ok |-> FALSE] when a step throws, else the
\* enrichedDetections array
cycleBody(predictions, targetClothingColors, now) ==
    LET persons == personDetections(predictions)
    IN  IF \E i \in 1..Len(persons) : getImageDataThrows(persons[i].bbox)
        THEN [ok |-> FALSE, dets |-> <<>>]
        ELSE [ok |-> TRUE,
              dets |-> [i \in 1..Len(persons) |->
                          enrichDetection(persons[i], targetClothingColors, now)]]

----------------------------------------------------------------------------
(* GolfVision: matching detections to the expected players *)

\* [top_color?.toLowerCase(), bottom_color?.toLowerCase()].filter(Boolean)
playerColors(player) ==
    SelectSeq(<<optLowerCase(player.clothingDescriptor.top_color),
                optLowerCase(player.clothingDescriptor.bottom_color)>>, Truthy)

\* mutant: the player's colours are compared as written, case included
playerMatches_CaseSensitive(player, detection) ==
    IF ~player.clothingDescriptor.present THEN FALSE
    ELSE includes(SelectSeq(<<player.clothingDescriptor.top_color,
                              player.clothingDescriptor.bottom_color>>, Truthy),
                  detection.clothingColor)

\* the predicate given to expectedPlayers.find
playerMatches(player, detection) ==
    IF ~player.clothingDescriptor.present THEN FALSE
    ELSE includes(playerColors(player), optLowerCase(detection.clothingColor))

\* mutant: the last player the predicate accepts, not the first
findPlayer_Last(expectedPlayers, detection) ==
    IF \E j \in 1..Len(expectedPlayers) : playerMatches(expectedPlayers[j], detection)
    THEN CHOOSE j \in 1..Len(expectedPlayers) :
            /\ playerMatches(expectedPlayers[j], detection)
            /\ \A k \in (j + 1)..Len(expectedPlayers) :
                   ~playerMatches(expectedPlayers[k], detection)
    ELSE 0

\* expectedPlayers.find(...): the index of the first player the predicate
\* accepts, 0 for undefined
findPlayer(expectedPlayers, detection) ==
    IF \E j \in 1..Len(expectedPlayers) : playerMatches(expectedPlayers[j], detection)
    THEN CHOOSE j \in 1..Len(expectedPlayers) :
            /\ playerMatches(expectedPlayers[j], detection)
            /\ \A k \in 1..(j - 1) : ~playerMatches(expectedPlayers[k], detection)
    ELSE 0

\* { ...detection, playerId, playerName, confidence, clothingMatch, timestamp }
matchRecord(detection, matchingPlayer, now) ==
    [class         |-> detection.class,
     score         |-> detection.score,
     bbox          |-> detection.bbox,
     clothingColor |-> detection.clothingColor,
     isTarget      |-> detection.isTarget,
     id            |-> detection.id,
     playerId      |-> matchingPlayer.user_id,
     playerName    |-> matchingPlayer.name,
     confidence    |-> detection.score,
     clothingMatch |-> TRUE,
     timestamp     |-> now]

\* the for loop of matchPlayersToDetections, matches being pushed in turn
RECURSIVE matchLoop(_, _, _, _)
matchLoop(detections, expectedPlayers, now, matches) ==
    IF detections = <<>> THEN matches
    ELSE LET detection == Head(detections)
             j == findPlayer(expectedPlayers, detection)
         IN  matchLoop(Tail(detections), expectedPlayers, now,
                 IF j # 0
                 THEN Append(matches, matchRecord(detection, expectedPlayers[j], now))
                 ELSE matches)

matchPlayersToDetections(detections, expectedPlayers, now) ==
    matchLoop(detections, expectedPlayers, now, <<>>)

\* body.detections of logDetectionEvent's POST /vision/detection-event
logPayload(matches) ==
    [i \in 1..Len(matches) |->
        [player_id      |-> matches[i].playerId,
         confidence     |-> matches[i].confidence,
         clothing_color |-> matches[i].clothingColor,
         bbox           |-> matches[i].bbox,
         timestamp      |-> matches[i].timestamp]]

----------------------------------------------------------------------------
(* Inputs of SpecPipe *)

Opaque(r, g, b) == [r |-> r, g |-> g, b |-> b, a |-> 255]

\* the frame under a box: its upper 40% left half, upper 40% right half, and
\* the rest
Image(ul, ur, lo) == [ul |-> ul, ur |-> ur, lo |-> lo]

Blue == Opaque(20, 20, 200)
Red  == Opaque(220, 10, 10)
Gray == Opaque(120, 120, 120)

\* raw predictions of coco-ssd, each with the frame under its box
BluePerson ==
    [class |-> "person", score |-> 92, bbox |-> <<0, 0, 20, 5>>,
     img |-> Image(Opaque(10, 10, 220), Blue, Gray)]
RedPerson ==
    [class |-> "person", score |-> 51, bbox |-> <<10, 1, 20, 5>>,
     img |-> Image([r |-> 10, g |-> 10, b |-> 220, a |-> 128], Red, Gray)]
ThresholdPerson ==
    [class |-> "person", score |-> 50, bbox |-> <<0, 0, 20, 5>>,
     img |-> Image(Blue, Blue, Gray)]
BlueDog ==
    [class |-> "dog", score |-> 92, bbox |-> <<0, 0, 20, 5>>,
     img |-> Image(Blue, Blue, Gray)]
FlatPerson ==
    [class |-> "person", score |-> 92, bbox |-> <<5, 5, 0, 20>>,
     img |-> Image(Blue, Blue, Gray)]
ShortPerson ==
    [class |-> "person", score |-> 92, bbox |-> <<0, 0, 20, 2>>,
     img |-> Image(Blue, Blue, Gray)]

RawPredictions ==
    {BluePerson, RedPerson, ThresholdPerson, BlueDog, FlatPerson, ShortPerson}

RECURSIVE SeqsUpTo(_, _)
SeqsUpTo(S, n) ==
    IF n = 0 THEN {<<>>}
    ELSE LET shorter == SeqsUpTo(S, n - 1)
         IN  shorter \cup {Append(q, x) : q \in shorter, x \in S}

Frames == SeqsUpTo(RawPredictions, MaxPreds)

Descriptor(top, bottom) == [present |-> TRUE, top_color |-> top, bottom_color |-> bottom]

Players ==
    { [user_id |-> "u1", name |-> "Ann", clothingDescriptor |-> Descriptor("Blue", "Khaki")],
      [user_id |-> "u2", name |-> "Bob", clothingDescriptor |-> Descriptor("red", "blue")],
      [user_id |-> "u3", name |-> "Cy",
       clothingDescriptor |-> [present |-> FALSE, top_color |-> Null, bottom_color |-> Null]],
      [user_id |-> "u4", name |-> "Di", clothingDescriptor |-> Descriptor(Null, "")] }

\* a player whose descriptor holds no recognised colour for the top
UnknownPlayer ==
    [user_id |-> "u5", name |-> "Eve", clothingDescriptor |-> Descriptor("Unknown", "")]

Rosters == SeqsUpTo(Players, MaxRoster)

TargetLists == { <<"blue">>, <<"Blue", "red">> }

----------------------------------------------------------------------------
(* Spec: PersonDetection mounted by LiveGolfCam *)

\* A detection loop is the chain startDetection -> detectFrame -> await
\* model.detect -> requestAnimationFrame(detectFrame) -> ...  Its kind:
\*   st   "inflight": its model.detect call is pending;
\*        "scheduled": its animation frame is pending
\*   cur  it was started by the PersonDetection instance now mounted
\*   ref  the id of the frame it requested last is the one held in
\*        animationFrameRef.current of the mounted instance
LoopKinds == [st : {"inflight", "scheduled"}, cur : BOOLEAN, ref : BOOLEAN]

Loop(st, cur, ref) == [st |-> st, cur |-> cur, ref |-> ref]

NoLoops == [k \in LoopKinds |-> 0]

RECURSIVE SumOver(_, _)
SumOver(S, f) ==
    IF S = {} THEN 0
    ELSE LET x == CHOOSE x \in S : TRUE
         IN  f[x] + SumOver(S \ {x}, f)

LoopCount(L) == SumOver(LoopKinds, L)
CountWhere(L, st, cur) == L[Loop(st, cur, TRUE)] + L[Loop(st, cur, FALSE)]

\* frames the video shows in Spec
LifeFrames == { <<BlueDog>>, <<BluePerson>>, <<RedPerson, ThresholdPerson>>, <<FlatPerson>> }

\* LiveGolfCam's targetColors, useState(['blue'])
lgcTargetColors == <<"blue">>

\* what a step did: the cycle it began (model.detect called), the frame it
\* requested, how the cycle it finished ended, the arguments of the
\* onDetection calls it made, and whether the loop concerned belongs to the
\* mounted instance
Event(op, began, sched, cycle, calls, cur, frame) ==
    [op |-> op, began |-> began, sched |-> sched, cycle |-> cycle,
     calls |-> calls, cur |-> cur, frame |-> frame]

Quiet(op) == Event(op, FALSE, FALSE, "none", <<>>, TRUE, <<>>)

\* the effect cleanups: if (animationFrameRef.current)
\*   cancelAnimationFrame(animationFrameRef.current)
\* a pending frame is cancelled only if its id is the one the ref holds
cancelAnimationFrame(L) ==
    IF L[Loop("scheduled", TRUE, TRUE)] > 0
    THEN [L EXCEPT ![Loop("scheduled", TRUE, TRUE)] = @ - 1]
    ELSE L

\* startDetection() called by the effect on [model, isActive]: detectFrame()
\* runs up to its await of model.detect
startDetection(L) == [L EXCEPT ![Loop("inflight", TRUE, FALSE)] = @ + 1]

\* animationFrameRef.current = requestAnimationFrame(detectFrame) by a loop of
\* kind k: the loop waits for its frame; the ref of its instance now holds
\* the id of that frame and of no other
requestAnimationFrame(L, k) ==
    LET gone == [L EXCEPT ![k] = @ - 1]
    IN  IF k.cur
        THEN [j \in LoopKinds |->
                IF j = Loop("scheduled", TRUE, TRUE) THEN 1
                ELSE IF j.cur /\ j.ref THEN 0
                ELSE IF j.cur /\ ~j.ref
                     THEN gone[j] + gone[Loop(j.st, TRUE, TRUE)]
                ELSE gone[j]]
        ELSE [gone EXCEPT ![Loop("scheduled", FALSE, FALSE)] = @ + 1]

\* the instance is unmounted: its loops go on, no longer within reach of any
\* cleanup
orphaned(L) ==
    [j \in LoopKinds |->
        IF j.cur \/ j.ref THEN 0
        ELSE L[j] + L[Loop(j.st, TRUE, TRUE)] + L[Loop(j.st, TRUE, FALSE)]]

\* mutant: the callback is skipped when nothing was detected
onDetectionCalls_SkipEmpty(enrichedDetections) ==
    IF enrichedDetections = <<>> THEN <<>> ELSE <<enrichedDetections>>

\* if (onDetection) { onDetection(enrichedDetections) }: the calls made
onDetectionCalls(enrichedDetections) == <<enrichedDetections>>

ColorIdle ==
    /\ cBox = <<0, 0, 0, 0>>
    /\ cImg = Image(Transparent, Transparent, Transparent)
    /\ cCounts = <<>>
    /\ cColor = "none"

RgbIdle == rgb = <<0, 0, 0>> /\ label = "none"

LogIdle ==
    /\ gLoop = "stopped"
    /\ gLogs = 0
    /\ gLogEv = [last |-> "none", then |-> FALSE]

CamIdle ==
    /\ camRoundId = Null
    /\ camStreaming = FALSE
    /\ streamRef = 0
    /\ liveStreams = {}
    /\ camPending = 0
    /\ camAcquired = 0

\* const photoTypes = ['face', 'front', 'side', 'back']
photoTypes == {"face", "front", "side", "back"}

PhotoIdle ==
    /\ activeCamera = Null
    /\ photo = Null
    /\ isReady = FALSE
    /\ blobs = [t \in photoTypes |-> 0]
    /\ reported = {}

PropIdle ==
    /\ propLoop = "none"
    /\ capTargets = <<>>
    /\ capRoster = <<>>
    /\ propLast = "none"

\* CameraCapture as constructed, isOpen false
CaptureIdle ==
    /\ ccOpen = FALSE
    /\ ccPermission = "prompt"
    /\ ccFacing = "user"
    /\ ccStreaming = FALSE
    /\ ccStreamRef = 0
    /\ ccLive = {}
    /\ ccQueries = 0
    /\ ccPending = 0
    /\ ccLate = 0
    /\ ccAcquired = 0
    /\ ccCalls = 0
    /\ ccOpens = 0

\* AuthProvider with no token in localStorage, after its first effect
AuthIdle ==
    /\ authUser = 0
    /\ authToken = 0
    /\ authLoading = FALSE
    /\ authMe = {}
    /\ authPosts = 0
    /\ authIssued = 0
    /\ authSince = "none"

\* what a step of CheckinFlow did: the operation, the step shown before it,
\* whether it closed the camera modal, the capture the modal belonged to and
\* the capture the operation belongs to
CkEvent(op, stepWas, closed, shown, from) ==
    [op |-> op, stepWas |-> stepWas, closed |-> closed, shown |-> shown, from |-> from]

\* CheckinFlow as constructed for a user without saved handedness
CheckinIdle ==
    /\ ckStep = 1
    /\ ckHanded = FALSE
    /\ ckLoading = FALSE
    /\ ckCameraOpen = FALSE
    /\ ckPhotoType = Null
    /\ ckForm = {}
    /\ ckAnalyzing = FALSE
    /\ ckAiAnalysis = FALSE
    /\ ckShowVerification = FALSE
    /\ ckAnalyses = {}
    /\ ckSerial = 0
    /\ ckSubmit = "none"
    /\ ckDone = {}
    /\ ckEv = CkEvent("init", 1, FALSE, 0, 0)

\* RoundStart as constructed
RoundIdle ==
    /\ rsStep = 1
    /\ rsRound = FALSE
    /\ rsPhotos = {}
    /\ rsCamera = Null
    /\ rsUploading = FALSE
    /\ rsUploads = {}
    /\ rsTaken = 0
    /\ rsEv = [op |-> "init", advanced |-> FALSE]

\* the timers of playVideo, none alive
NoTimers == [id \in {} |-> 0]

\* RoundDetails as constructed
DetailsIdle ==
    /\ rdPlaying = FALSE
    /\ rdProgress = 0
    /\ rdTimers = NoTimers
    /\ rdResets = 0
    /\ rdPlays = 0
    /\ rdPaused = FALSE

AppIdle == CaptureIdle /\ AuthIdle /\ CheckinIdle /\ RoundIdle /\ DetailsIdle

SideIdle ==
    ColorIdle /\ RgbIdle /\ LogIdle /\ CamIdle /\ PhotoIdle /\ PropIdle /\ AppIdle

PipeIdle ==
    /\ pFrame = <<>>
    /\ pTargets = lgcTargetColors
    /\ pRoster = <<>>
    /\ pRoundId = Null
    /\ pNow = 0
    /\ pCycle = "none"
    /\ pEnriched = <<>>
    /\ gvDetections = <<>>
    /\ matchedPlayers = <<>>
    /\ pLogged = <<>>
    /\ pRuns = 0
    /\ pPrevEnriched = <<>>
    /\ pPrevMatched = <<>>

LifeInit ==
    /\ isStreaming = FALSE
    /\ isDetectionActive = FALSE
    /\ lgcDetections = <<>>
    /\ model = FALSE
    /\ isLoading = FALSE
    /\ pdDetections = <<>>
    /\ loads = 0
    /\ loops = NoLoops
    /\ ev = Quiet("init")

Init == LifeInit /\ PipeIdle /\ SideIdle

VisionIdle ==
    /\ LifeInit
    /\ PipeIdle
    /\ ColorIdle
    /\ RgbIdle
    /\ LogIdle
    /\ CamIdle
    /\ PhotoIdle
    /\ PropIdle

\* LiveGolfCam.startLiveStream, video.play() having resolved:
\* setIsStreaming(true) mounts a new PersonDetection, whose effects run with
\* the isActive prop of that render
startLiveStream ==
    /\ ~isStreaming
    /\ isStreaming' = TRUE
    /\ model' = FALSE
    /\ pdDetections' = <<>>
    /\ isLoading' = isDetectionActive
    /\ loads' = IF isDetectionActive THEN 1 ELSE 0
    /\ ev' = Quiet("startLiveStream")
    /\ UNCHANGED <<isDetectionActive, lgcDetections, loops>>
    /\ UNCHANGED <<pipeVars, sideVars>>

\* onClick={() => setIsDetectionActive(!isDetectionActive)}, then the
\* effects of PersonDetection on [isActive] and on [model, isActive]: both
\* cleanups, then loadModel() and startDetection() under their conditions
toggleDetection ==
    LET isActive == ~isDetectionActive
        cleaned  == cancelAnimationFrame(cancelAnimationFrame(loops))
        starts   == isActive /\ model
    IN  /\ isStreaming
        /\ isActive => loads < MaxLoads
        /\ starts => LoopCount(cleaned) < MaxLoops
        /\ isDetectionActive' = isActive
        /\ loads' = IF isActive THEN loads + 1 ELSE loads
        /\ isLoading' = IF isActive THEN TRUE ELSE isLoading
        /\ loops' = IF starts THEN startDetection(cleaned) ELSE cleaned
        /\ ev' = Event("toggleDetection", starts, FALSE, "none", <<>>, TRUE, <<>>)
        /\ UNCHANGED <<isStreaming, lgcDetections, model, pdDetections>>
        /\ UNCHANGED <<pipeVars, sideVars>>

\* loadModel: cocoSsd.load() resolves; setModel(loadedModel), finally
\* setIsLoading(false); the new model re-runs the effect on [model, isActive]
loadResolve ==
    LET cleaned == cancelAnimationFrame(loops)
    IN  /\ loads > 0
        /\ isDetectionActive => LoopCount(cleaned) < MaxLoops
        /\ loads' = loads - 1
        /\ model' = TRUE
        /\ isLoading' = FALSE
        /\ loops' = IF isDetectionActive THEN startDetection(cleaned) ELSE cleaned
        /\ ev' = Event("loadResolve", isDetectionActive, FALSE, "none", <<>>, TRUE, <<>>)
        /\ UNCHANGED <<isStreaming, isDetectionActive, lgcDetections, pdDetections>>
        /\ UNCHANGED <<pipeVars, sideVars>>

\* loadModel: cocoSsd.load() rejects; catch, finally setIsLoading(false)
loadReject ==
    /\ loads > 0
    /\ loads' = loads - 1
    /\ isLoading' = FALSE
    /\ ev' = Quiet("loadReject")
    /\ UNCHANGED <<isStreaming, isDetectionActive, lgcDetections, model,
                   pdDetections, loops>>
    /\ UNCHANGED <<pipeVars, sideVars>>

\* the animation frame of a loop of kind k fires: detectFrame(); its guard
\* reads the isActive and model of the render that started the loop, where
\* both held, so model.detect(video) is called.  While the stream is stopped
\* the video holds no data (stopStream set its src to ''): the call rejects
\* at once, the catch runs and the next frame is requested.
animationFrame(k) ==
    /\ k.st = "scheduled"
    /\ loops[k] > 0
    /\ loops' = IF isStreaming
                THEN [loops EXCEPT ![k] = @ - 1,
                                   ![Loop("inflight", k.cur, k.ref)] = @ + 1]
                ELSE requestAnimationFrame(loops, k)
    /\ ev' = IF isStreaming
             THEN Event("animationFrame", TRUE, FALSE, "none", <<>>, k.cur, <<>>)
             ELSE Event("animationFrame", TRUE, TRUE, "error", <<>>, k.cur, <<>>)
    /\ UNCHANGED <<isStreaming, isDetectionActive, lgcDetections, model,
                   isLoading, pdDetections, loads>>
    /\ UNCHANGED <<pipeVars, sideVars>>

\* model.detect of a loop of kind k resolves with the predictions of frame:
\* the rest of the try block (setDetections, onDetection =
\* LiveGolfCam.handleDetection) or the catch, then requestAnimationFrame
detectResolve(k, frame) ==
    LET r     == cycleBody(frame, lgcTargetColors, pNow)
        calls == IF r.ok THEN onDetectionCalls(r.dets) ELSE <<>>
    IN  /\ k.st = "inflight"
        /\ loops[k] > 0
        /\ pdDetections' = IF r.ok /\ k.cur THEN r.dets ELSE pdDetections
        /\ lgcDetections' = IF calls # <<>> THEN calls[Len(calls)] ELSE lgcDetections
        /\ loops' = requestAnimationFrame(loops, k)
        /\ ev' = Event("detectResolve", FALSE, TRUE, IF r.ok THEN "ok" ELSE "error",
                       calls, k.cur, frame)
        /\ UNCHANGED <<isStreaming, isDetectionActive, model, isLoading, loads>>
        /\ UNCHANGED <<pipeVars, sideVars>>

\* mutant: the next frame is requested inside the try block, so a rejected
\* model.detect ends the loop
detectReject_Halt(k) ==
    /\ k.st = "inflight"
    /\ loops[k] > 0
    /\ loops' = [loops EXCEPT ![k] = @ - 1]
    /\ ev' = Event("detectReject", FALSE, FALSE, "error", <<>>, k.cur, <<>>)
    /\ UNCHANGED <<isStreaming, isDetectionActive, lgcDetections, model,
                   isLoading, pdDetections, loads>>
    /\ UNCHANGED <<pipeVars, sideVars>>

\* model.detect of a loop of kind k rejects: the catch, then
\* requestAnimationFrame
detectReject(k) ==
    /\ k.st = "inflight"
    /\ loops[k] > 0
    /\ loops' = requestAnimationFrame(loops, k)
    /\ ev' = Event("detectReject", FALSE, TRUE, "error", <<>>, k.cur, <<>>)
    /\ UNCHANGED <<isStreaming, isDetectionActive, lgcDetections, model,
                   isLoading, pdDetections, loads>>
    /\ UNCHANGED <<pipeVars, sideVars>>

\* LiveGolfCam.stopStream; PersonDetection is unmounted and the cleanups of
\* its two effects run
stopStream ==
    /\ isStreaming
    /\ isStreaming' = FALSE
    /\ isDetectionActive' = FALSE
    /\ lgcDetections' = <<>>
    /\ loops' = orphaned(cancelAnimationFrame(cancelAnimationFrame(loops)))
    /\ model' = FALSE
    /\ isLoading' = FALSE
    /\ pdDetections' = <<>>
    /\ loads' = 0
    /\ ev' = Quiet("stopStream")
    /\ UNCHANGED <<pipeVars, sideVars>>

Next ==
    \/ startLiveStream
    \/ toggleDetection
    \/ loadResolve
    \/ loadReject
    \/ \E k \in LoopKinds : animationFrame(k)
    \/ \E k \in LoopKinds : \E frame \in LifeFrames : detectResolve(k, frame)
    \/ \E k \in LoopKinds : detectReject(k)
    \/ stopStream

Spec == Init /\ [][Next]_vars

----------------------------------------------------------------------------
(* Claims checked under Spec *)

\* detection is active for the session of the loop the last step concerned
SessionActive == ev.cur /\ isStreaming /\ isDetectionActive

\* the predictions of a frame that pass the filter, bounding boxes in order
PassingBoxes(frame) ==
    LET Passes(p) == p.class = "person" /\ p.score > 50
        kept == SelectSeq(frame, Passes)
    IN  [i \in 1..Len(kept) |-> kept[i].bbox]

\* C2: after detection is deactivated (isActive false, or PersonDetection
\* unmounted by stopStream) no detection cycle is begun and no animation
\* frame is requested for that session, also when the deactivation came
\* while model.detect was in flight.
C2_NoCycleAfterDeactivation ==
    (ev.began \/ ev.sched) => SessionActive

\* C3: the result of a model.detect call that was in flight when detection
\* was deactivated is discarded: onDetection is not invoked for a session
\* that is no longer active, and LiveGolfCam's detections stay empty while
\* the stream is stopped.
C3_ResultDiscardedAfterDeactivation ==
    /\ ev.calls # <<>> => SessionActive
    /\ ~isStreaming => lgcDetections = <<>>

\* C4: no two detection cycles of the mounted PersonDetection instance are
\* in progress (awaiting model.detect) at once.
C4_OneCycleAtATime ==
    CountWhere(loops, "inflight", TRUE) <= 1

\* C5: a cycle that fails (model.detect rejects or a step throws) calls
\* onDetection not at all, leaves the stored detections as they were, and
\* still requests the next animation frame, the loop staying alive.
C5_FailureSkipsAndReschedules ==
    [][ev'.cycle = "error" =>
          /\ ev'.calls = <<>>
          /\ lgcDetections' = lgcDetections
          /\ pdDetections' = pdDetections
          /\ ev'.sched
          /\ LoopCount(loops') = LoopCount(loops)
          /\ CountWhere(loops', "scheduled", ev'.cur)
                = CountWhere(loops, "scheduled", ev'.cur)
                  + (IF ev'.began THEN 0 ELSE 1)]_vars

\* C5 witness: while detection is active a cycle has just failed on a frame
\* (a step threw), detections of an earlier cycle are still stored and the
\* loop waits for its next animation frame
C5_Witness ==
    /\ ev.cycle = "error"
    /\ ev.frame # <<>>
    /\ SessionActive
    /\ lgcDetections # <<>>
    /\ pdDetections = lgcDetections
    /\ loops[Loop("scheduled", TRUE, TRUE)] = 1

\* C6: a cycle that completes without error calls onDetection exactly once
\* with the cycle's whole array (empty when nothing passed the filter), and
\* that array, holding detections of this cycle's frame only, is what is
\* stored afterwards.
C6_EmitsOncePerCycle ==
    ev.cycle = "ok" =>
        /\ Len(ev.calls) = 1
        /\ lgcDetections = ev.calls[1]
        /\ (ev.cur /\ isStreaming) => pdDetections = ev.calls[1]
        /\ Len(ev.calls[1]) = Len(PassingBoxes(ev.frame))
        /\ \A i \in 1..Len(ev.calls[1]) :
              ev.calls[1][i].bbox = PassingBoxes(ev.frame)[i]

\* C6 witness: a cycle in which no prediction passed the filter has just
\* completed and delivered the empty array
C6_Witness ==
    /\ ev.cycle = "ok"
    /\ SessionActive
    /\ ev.frame # <<>>
    /\ ev.calls = << <<>> >>
    /\ lgcDetections = <<>>

\* C7: a detection cycle is begun only while detection is active and a
\* model is held; without a model no loop of the instance exists and
\* onDetection is not called; a failed load leaves isLoading false.
C7_CycleOnlyWhenActiveAndLoaded ==
    /\ ev.began => (SessionActive /\ model)
    /\ (isStreaming /\ ~model) =>
          /\ CountWhere(loops, "inflight", TRUE) = 0
          /\ CountWhere(loops, "scheduled", TRUE) = 0
    /\ ev.op = "loadReject" => ~isLoading

\* the frame id held by animationFrameRef.current belongs to one loop at most
RefHeldByOneLoop ==
    loops[Loop("scheduled", TRUE, TRUE)] + loops[Loop("inflight", TRUE, TRUE)] <= 1

----------------------------------------------------------------------------
(* SpecPipe: a frame, a target list and a roster through one cycle *)

PipeInit ==
    /\ LifeInit
    /\ SideIdle
    /\ pFrame \in Frames
    /\ pTargets \in TargetLists
    /\ pRoster \in Rosters
    /\ pRoundId \in {Null, "round1"}
    /\ pNow = 0
    /\ pCycle = "none"
    /\ pEnriched = <<>>
    /\ gvDetections = <<>>
    /\ matchedPlayers = <<>>
    /\ pLogged = <<>>
    /\ pRuns = 0
    /\ pPrevEnriched = <<>>
    /\ pPrevMatched = <<>>

\* mutant: the matches of a cycle are added to those already held
handleDetection_Accumulate(newDetections) ==
    LET matches == matchPlayersToDetections(newDetections, pRoster, pNow)
    IN  /\ gvDetections' = newDetections
        /\ matchedPlayers' = matchedPlayers \o matches
        /\ pLogged' = IF pRoundId # Null /\ Len(matches) > 0
                      THEN logPayload(matches) ELSE <<>>

\* GolfVision.handleDetection(newDetections)
handleDetection(newDetections) ==
    LET matches == matchPlayersToDetections(newDetections, pRoster, pNow)
    IN  /\ gvDetections' = newDetections
        /\ matchedPlayers' = matches
        /\ pLogged' = IF pRoundId # Null /\ Len(matches) > 0
                      THEN logPayload(matches) ELSE <<>>

\* detectFrame from the resolution of model.detect to the catch block, with
\* onDetection = GolfVision.handleDetection
PipeCycle ==
    LET r == cycleBody(pFrame, pTargets, pNow)
    IN  /\ IF r.ok
           THEN /\ pCycle' = "ok"
                /\ pEnriched' = r.dets
                /\ handleDetection(r.dets)
                /\ pRuns' = IF pRuns < 2 THEN pRuns + 1 ELSE pRuns
                /\ pPrevEnriched' = pEnriched
                /\ pPrevMatched' = matchedPlayers
           ELSE /\ pCycle' = "error"
                /\ UNCHANGED <<pEnriched, gvDetections, matchedPlayers, pLogged,
                               pRuns, pPrevEnriched, pPrevMatched>>
        /\ UNCHANGED <<pFrame, pTargets, pRoster, pRoundId, pNow>>
        /\ UNCHANGED <<lifeVars, sideVars>>

\* the clock advances
PipeTick ==
    /\ pNow < MaxTime
    /\ pNow' = pNow + 1
    /\ UNCHANGED <<pFrame, pTargets, pRoster, pRoundId, pCycle, pEnriched,
                   gvDetections, matchedPlayers, pLogged, pRuns, pPrevEnriched,
                   pPrevMatched>>
    /\ UNCHANGED <<lifeVars, sideVars>>

PipeNext == PipeCycle \/ PipeTick

SpecPipe == PipeInit /\ [][PipeNext]_vars

----------------------------------------------------------------------------
(* Claims checked under SpecPipe *)

\* a roster player with a clothingDescriptor lists colour c, case-insensitively,
\* as its top_color or bottom_color
Lists(player, c) ==
    /\ player.clothingDescriptor.present
    /\ \E pc \in {player.clothingDescriptor.top_color,
                  player.clothingDescriptor.bottom_color} :
           pc # Null /\ toLowerCase(pc) = toLowerCase(c)

Listed(d) == \E j \in 1..Len(pRoster) : Lists(pRoster[j], d.clothingColor)

\* the detections of the last cycle that some roster player lists, in order
ListedDetections == SelectSeq(gvDetections, Listed)

\* the first player in roster order listing the colour of d
FirstLister(d) ==
    CHOOSE j \in 1..Len(pRoster) :
        /\ Lists(pRoster[j], d.clothingColor)
        /\ \A k \in 1..(j - 1) : ~Lists(pRoster[k], d.clothingColor)

\* the fields a match copies from its detection
SameDetection(m, d) ==
    /\ m.id = d.id
    /\ m.bbox = d.bbox
    /\ m.score = d.score
    /\ m.class = d.class
    /\ m.clothingColor = d.clothingColor
    /\ m.isTarget = d.isTarget

\* C1: an enriched detection is emitted only for a raw prediction of class
\* 'person' with score strictly above 0.5 (50 hundredths); every other
\* prediction is absent from the emitted array, in the order and number of
\* the predictions that pass, and so from the matches, whatever the roster.
C1_FilterInvariant ==
    LET passing == {k \in 1..Len(pFrame) :
                        pFrame[k].class = "person" /\ pFrame[k].score > 50}
    IN  /\ Len(pEnriched) \in {0, Cardinality(passing)}
        /\ pCycle = "ok" => Len(pEnriched) = Cardinality(passing)
        /\ \A i \in 1..Len(pEnriched) :
              /\ pEnriched[i].class = "person"
              /\ pEnriched[i].score > 50
              /\ \E k \in passing : /\ pFrame[k].bbox = pEnriched[i].bbox
                                    /\ pFrame[k].score = pEnriched[i].score
        /\ \A i \in 1..Len(matchedPlayers) :
              /\ matchedPlayers[i].class = "person"
              /\ matchedPlayers[i].score > 50
              /\ \E k \in 1..Len(pEnriched) : SameDetection(matchedPlayers[i], pEnriched[k])

\* C1 witness: a frame holding a person at exactly 0.5 and one above it was
\* processed; one detection was emitted and matched
C1_Witness ==
    /\ pCycle = "ok"
    /\ \E k \in 1..Len(pFrame) : pFrame[k].class = "person" /\ pFrame[k].score = 50
    /\ Len(pFrame) = 2
    /\ Len(pEnriched) = 1
    /\ Len(matchedPlayers) = 1

\* C8: a match is emitted for a detection if and only if some roster player
\* with a clothingDescriptor lists the detection's clothingColor,
\* case-insensitively, as top_color or bottom_color; isTarget plays no part.
C8_MatchIffListed ==
    pCycle = "ok" =>
        /\ Len(matchedPlayers) = Len(ListedDetections)
        /\ \A k \in 1..Len(matchedPlayers) :
              SameDetection(matchedPlayers[k], ListedDetections[k])

\* C8 witness: a detection that is not a target is matched (through a player
\* written 'Blue') while a target detection of the same frame is not
C8_Witness ==
    /\ pCycle = "ok"
    /\ Len(gvDetections) = 2
    /\ Len(matchedPlayers) = 1
    /\ ~matchedPlayers[1].isTarget
    /\ matchedPlayers[1].clothingColor = "blue"
    /\ \E i \in 1..2 : gvDetections[i].isTarget /\ ~Listed(gvDetections[i])
    /\ \A j \in 1..Len(pRoster) : pRoster[j].clothingDescriptor.top_color # "blue"
                                  /\ pRoster[j].clothingDescriptor.bottom_color # "blue"

\* C9: at most one match per detection, matches in detection order, and the
\* playerId of each is that of the first player in roster order listing the
\* detection's colour, whenever the cycle runs.
C9_FirstRosterHit ==
    pCycle = "ok" =>
        /\ Len(matchedPlayers) <= Len(gvDetections)
        /\ Len(matchedPlayers) = Len(ListedDetections)
        /\ \A k \in 1..Len(matchedPlayers) :
              /\ matchedPlayers[k].id = ListedDetections[k].id
              /\ matchedPlayers[k].playerId
                    = pRoster[FirstLister(ListedDetections[k])].user_id
              /\ matchedPlayers[k].playerName
                    = pRoster[FirstLister(ListedDetections[k])].name

\* C9 witness: two different players both list blue, a blue detection is
\* matched to the first of them by a cycle that ran after the clock advanced
C9_Witness ==
    /\ pCycle = "ok"
    /\ pNow > 0
    /\ Len(pRoster) = 2
    /\ pRoster[1].user_id # pRoster[2].user_id
    /\ Lists(pRoster[1], "blue") /\ Lists(pRoster[2], "blue")
    /\ Len(matchedPlayers) >= 1
    /\ matchedPlayers[1].clothingColor = "blue"
    /\ matchedPlayers[1].timestamp = pNow
    /\ matchedPlayers[1].playerId = pRoster[1].user_id

\* C10: an emitted detection has isTarget = true exactly when its
\* clothingColor is an element of the target list, compared as written
\* (case-sensitively).
C10_IsTargetIffMember ==
    \A i \in 1..Len(pEnriched) :
        pEnriched[i].isTarget
            <=> (\E j \in 1..Len(pTargets) : pTargets[j] = pEnriched[i].clothingColor)

\* C10 witness: the list holds 'Blue', a detection classified 'blue' is
\* emitted and is no target, while a 'red' one is
C10_Witness ==
    /\ pCycle = "ok"
    /\ \E j \in 1..Len(pTargets) : pTargets[j] = "Blue"
    /\ \E i \in 1..Len(pEnriched) :
          pEnriched[i].clothingColor = "blue" /\ ~pEnriched[i].isTarget
    /\ \E i \in 1..Len(pEnriched) :
          pEnriched[i].clothingColor = "red" /\ pEnriched[i].isTarget

\* the predictions of the frame that pass the filter, in order
PassingPredictions ==
    LET Passes(q) == q.class = "person" /\ q.score > 50
    IN  SelectSeq(pFrame, Passes)

\* C11: when reading or sampling the pixels of one detection throws (a box
\* without area, for one), the cycle still emits every detection of the
\* frame, that one with clothingColor 'unknown' and the others enriched as
\* usual.
C11_SamplingFailureIsLocal ==
    pCycle # "none" =>
        /\ pCycle = "ok"
        /\ Len(pEnriched) = Len(PassingPredictions)
        /\ \A i \in 1..Len(pEnriched) :
              LET q == PassingPredictions[i]
              IN  /\ pEnriched[i].bbox = q.bbox
                  /\ (q.bbox[3] = 0 \/ q.bbox[4] = 0)
                        => pEnriched[i].clothingColor = "unknown"

\* a record without the fields read from the clock
SansClock(d) ==
    [f \in (DOMAIN d) \ {"timestamp", "id"} |-> d[f]]

C22_IdsDistinct ==
    \A i, j \in 1..Len(pEnriched) :
        i # j => pEnriched[i].id # pEnriched[j].id

----------------------------------------------------------------------------
(* SpecColor: one call of analyzeClothingColor on a box and the frame under it *)

\* a pixel of the frame seen through haze: blue at alpha exactly 128
HazeBlue == [r |-> 20, g |-> 20, b |-> 200, a |-> AlphaThreshold]

\* boxes with area (getImageData of detectFrame returned) and their frames
Boxes ==
    { <<x, y, w, h>> : x \in {0, SampleStride, MaxBoxX}, y \in 0..MaxBoxY,
                       w \in {SampleStride, MaxBoxW}, h \in {2, 5, MaxBoxH} }

Images ==
    { Image(ul, ur, lo) : ul \in {Blue, Red, HazeBlue, Transparent},
                          ur \in {Blue, Red, HazeBlue, Transparent},
                          lo \in {Gray, Blue} }

ColorInit ==
    /\ LifeInit
    /\ PropIdle
    /\ AppIdle
    /\ PipeIdle
    /\ RgbIdle
    /\ LogIdle
    /\ CamIdle
    /\ PhotoIdle
    /\ cBox \in Boxes
    /\ cImg \in Images
    /\ cCounts = <<>>
    /\ cColor = "none"

\* const clothingColor = analyzeClothingColor(imageData, detection.bbox)
ColorAnalyze ==
    LET imageData == [width |-> cBox[3], height |-> cBox[4], img |-> cImg]
    IN  /\ cColor = "none"
        /\ cColor' = analyzeClothingColor(imageData, cBox)
        /\ cCounts' = IF cBox[3] = 0 \/ upperBodyHeight(cBox) = 0 THEN <<>>
                      ELSE colorCounts(imageData, cBox)
        /\ UNCHANGED <<cBox, cImg>>
        /\ UNCHANGED <<lifeVars, pipeVars, rgbVars, logVars, camVars, photoVars,
                   propVars, appVars>>

ColorNext == ColorAnalyze

SpecColor == ColorInit /\ [][ColorNext]_vars

----------------------------------------------------------------------------
(* Claims checked under SpecColor *)

\* the pixels the sampling loop visited in the call
Samples == sampledData([width |-> cBox[3], height |-> cBox[4], img |-> cImg], cBox)

ColorLabels == {"white", "black", "red", "blue", "green", "yellow", "purple",
                "orange", "brown", "gray"}

\* the indices of the samples of alpha above 128 whose colour falls in bucket c
Retained(c) ==
    {k \in 1..Len(Samples) :
        /\ Samples[k].a > 128
        /\ categorizeColor(Samples[k].r, Samples[k].g, Samples[k].b) = c}

\* the count of bucket c in the tally, 0 when the bucket is absent
CountOf(c) ==
    IF \E i \in 1..Len(cCounts) : cCounts[i].k = c
    THEN cCounts[CHOOSE i \in 1..Len(cCounts) : cCounts[i].k = c].n
    ELSE 0

\* the buckets of the tally whose count is the largest
MaxBuckets ==
    {c \in ColorLabels : CountOf(c) > 0 /\ \A d \in ColorLabels : CountOf(d) <= CountOf(c)}

\* the sampling ran: the temporary canvas has area
Sampled == cColor # "none" /\ cBox[3] > 0 /\ cBox[4] * 4 >= 10

\* C12: a sampled pixel is counted in the tally if and only if its alpha is
\* strictly above 128: each bucket counts exactly the samples of its colour
\* with alpha > 128, and samples with alpha <= 128 (128 included) change
\* no count.
C12_AlphaStrictlyAbove ==
    Sampled => \A c \in ColorLabels : CountOf(c) = Cardinality(Retained(c))

\* C12 witness: a blue pixel of alpha exactly 128 was sampled along with an
\* opaque red one, and the tally holds red only
C12_Witness ==
    /\ Sampled
    /\ \E k \in 1..Len(Samples) : Samples[k] = HazeBlue
    /\ CountOf("blue") = 0
    /\ CountOf("red") > 0

\* C13: when no sampled pixel has alpha > 128, analyzeClothingColor returns
\* 'unknown', never a colour bucket.
C13_NoSamplesUnknown ==
    (cColor # "none" /\ \A k \in 1..Len(Samples) : Samples[k].a <= 128)
        => cColor = "unknown"

\* C13 witness: pixels were sampled, none of alpha above 128, one of them of
\* alpha exactly 128, and 'unknown' was returned
C13_Witness ==
    /\ Sampled
    /\ \E k \in 1..Len(Samples) : Samples[k].a = 128
    /\ \A k \in 1..Len(Samples) : Samples[k].a <= 128
    /\ cCounts = <<>>
    /\ cColor = "unknown"

\* C18: whatever the position x, y of the box, the pixels tallied are those
\* of its upper 40%: a box whose upper 40% is uniformly opaque blue is
\* classified 'blue'.
C18_UpperBodyBlue ==
    (Sampled /\ cImg.ul = Blue /\ cImg.ur = Blue) => cColor = "blue"

RuleOrder == <<"white", "black", "red", "blue", "green", "yellow", "purple",
               "orange", "brown", "gray">>

RuleIndex(c) == CHOOSE i \in 1..Len(RuleOrder) : RuleOrder[i] = c

\* the index of the first sample counted in bucket c
FirstSeen(c) == CHOOSE k \in Retained(c) : \A j \in Retained(c) : k <= j

\* C19 as stated: the bucket returned has the largest count, and of the
\* buckets tied for it the one declared first in the rule order.
C19_TieByRuleOrder ==
    (Sampled /\ cCounts # <<>>) =>
        /\ cColor \in MaxBuckets
        /\ \A c \in MaxBuckets : RuleIndex(cColor) <= RuleIndex(c)

\* C19 amended: the bucket returned has the largest count, and of the
\* buckets tied for it the one whose first counted sample comes first in
\* sampling order.
C19_TieByFirstEncounter ==
    (Sampled /\ cCounts # <<>>) =>
        /\ cColor \in MaxBuckets
        /\ \A c \in MaxBuckets : FirstSeen(cColor) <= FirstSeen(c)

\* C19 witness: blue and red tie for the largest count, blue was sampled
\* first and is returned, although red is declared before blue
C19_Witness ==
    /\ Sampled
    /\ MaxBuckets = {"blue", "red"}
    /\ FirstSeen("blue") < FirstSeen("red")
    /\ cColor = "blue"

----------------------------------------------------------------------------
(* SpecRgb: one call of categorizeColor *)

\* channel values on both sides of every threshold of the rules
Levels == {0, 30, 59, 60, 79, 80, 81, 100, 101, 130, 150, 151, 200, 201, 255}

RgbInit ==
    /\ LifeInit
    /\ PropIdle
    /\ AppIdle
    /\ PipeIdle
    /\ ColorIdle
    /\ LogIdle
    /\ CamIdle
    /\ PhotoIdle
    /\ rgb \in Levels \X Levels \X Levels
    /\ label = "none"

\* const colorCategory = categorizeColor(r, g, b)
RgbCategorize ==
    /\ label = "none"
    /\ label' = categorizeColor(rgb[1], rgb[2], rgb[3])
    /\ UNCHANGED rgb
    /\ UNCHANGED <<lifeVars, pipeVars, colorVars, logVars, camVars, photoVars,
                   propVars, appVars>>

RgbNext == RgbCategorize

SpecRgb == RgbInit /\ [][RgbNext]_vars

\* rule i of the rule order holds of the arguments
RuleHolds(i) ==
    LET r == rgb[1]
        g == rgb[2]
        b == rgb[3]
    IN  CASE i = 1 -> r > 200 /\ g > 200 /\ b > 200
          [] i = 2 -> r < 80 /\ g < 80 /\ b < 80
          [] i = 3 -> r - g > 50 /\ r - b > 50
          [] i = 4 -> b - r > 50 /\ b - g > 50
          [] i = 5 -> g - r > 50 /\ g - b > 50
          [] i = 6 -> r > 150 /\ g > 150 /\ b < 100
          [] i = 7 -> r > 100 /\ g < 80 /\ b > 100
          [] i = 8 -> r > 100 /\ g > 80 /\ b < 80
          [] i = 9 -> r > 80 /\ g > 60 /\ b < 60
          [] OTHER -> TRUE

\* C20: categorizeColor returns the label of the first rule that holds in
\* the order white, black, red, blue, green, yellow, purple, orange, brown,
\* and gray when none holds; a triple under both the red and the orange rule
\* is labelled red.
C20_FirstRuleWins ==
    label # "none" =>
        /\ \E i \in 1..10 : /\ RuleHolds(i)
                             /\ \A j \in 1..(i - 1) : ~RuleHolds(j)
                             /\ label = RuleOrder[i]
        /\ (RuleHolds(3) /\ RuleHolds(8) /\ ~RuleHolds(1) /\ ~RuleHolds(2))
              => label = "red"

\* C20 witness: the arguments satisfy both the red rule and the orange rule
\* and the label returned is red
C20_Witness ==
    /\ label = "red"
    /\ RuleHolds(3)
    /\ RuleHolds(8)

----------------------------------------------------------------------------
(* SpecLog: the detection loop under GolfVision, detection active, with the *)
(* log requests of logDetectionEvent in flight                              *)

\* cameraPositions['tee-box'].targetColors
gvTargetColors == <<"blue", "red", "white", "green">>

LogFrames ==
    { <<>>, <<BluePerson>>, <<FlatPerson>>, <<RedPerson, BluePerson>>, <<ShortPerson>> }

LogRosters ==
    { <<>>, <<UnknownPlayer>> }
        \cup { <<q>> : q \in {pl \in Players : pl.user_id \in {"u1", "u2"}} }

LogInit ==
    /\ LifeInit
    /\ PropIdle
    /\ AppIdle
    /\ ColorIdle
    /\ RgbIdle
    /\ CamIdle
    /\ PhotoIdle
    /\ pFrame = <<>>
    /\ pTargets = gvTargetColors
    /\ pRoster \in LogRosters
    /\ pRoundId \in {Null, "round1"}
    /\ pNow = 0
    /\ pCycle = "none"
    /\ pEnriched = <<>>
    /\ gvDetections = <<>>
    /\ matchedPlayers = <<>>
    /\ pLogged = <<>>
    /\ pRuns = 0
    /\ pPrevEnriched = <<>>
    /\ pPrevMatched = <<>>
    /\ gLoop = "inflight"
    /\ gLogs = 0
    /\ gLogEv = [last |-> "none", then |-> FALSE]

\* the animation frame fires: detectFrame() calls model.detect(video)
LogFrame ==
    /\ gLoop = "scheduled"
    /\ gLoop' = "inflight"
    /\ UNCHANGED <<gLogs, gLogEv>>
    /\ UNCHANGED <<lifeVars, pipeVars, colorVars, rgbVars, camVars, photoVars,
                   propVars, appVars>>

\* model.detect resolves with the predictions of frame: the try block with
\* onDetection = GolfVision.handleDetection, which calls
\* logDetectionEvent(matches) without awaiting it (the request is issued and
\* left pending), or the catch; then requestAnimationFrame(detectFrame)
LogCycle(frame) ==
    LET r       == cycleBody(frame, pTargets, pNow)
        matches == matchPlayersToDetections(r.dets, pRoster, pNow)
        logs    == r.ok /\ pRoundId # Null /\ Len(matches) > 0
    IN  /\ gLoop = "inflight"
        /\ logs => gLogs < MaxLogs
        /\ pFrame' = frame
        /\ IF r.ok
           THEN /\ pCycle' = "ok"
                /\ pEnriched' = r.dets
                /\ handleDetection(r.dets)
           ELSE /\ pCycle' = "error"
                /\ UNCHANGED <<pEnriched, gvDetections, matchedPlayers, pLogged>>
        /\ gLogs' = IF logs THEN gLogs + 1 ELSE gLogs
        /\ gLogEv' = IF r.ok THEN [gLogEv EXCEPT !.then = (gLogEv.last # "none")]
                      ELSE gLogEv
        /\ gLoop' = "scheduled"
        /\ UNCHANGED <<pTargets, pRoster, pRoundId, pNow, pRuns, pPrevEnriched,
                       pPrevMatched>>
        /\ UNCHANGED <<lifeVars, colorVars, rgbVars, camVars, photoVars,
                   propVars, appVars>>

\* await apiRequest(...) of a pending logDetectionEvent resolves
logResolve ==
    /\ gLogs > 0
    /\ gLogs' = gLogs - 1
    /\ gLogEv' = [last |-> "resolved", then |-> FALSE]
    /\ UNCHANGED gLoop
    /\ UNCHANGED <<lifeVars, pipeVars, colorVars, rgbVars, camVars, photoVars,
                   propVars, appVars>>

\* mutant: logDetectionEvent has no try/catch and the loop awaits the
\* callback inside its own try block without requesting the next frame
logReject_Uncaught ==
    /\ gLogs > 0
    /\ gLogs' = gLogs - 1
    /\ gLogEv' = [last |-> "rejected", then |-> FALSE]
    /\ gLoop' = "stopped"
    /\ UNCHANGED <<lifeVars, pipeVars, colorVars, rgbVars, camVars, photoVars,
                   propVars, appVars>>

\* await apiRequest(...) of a pending logDetectionEvent rejects: the catch
\* of logDetectionEvent, console.error
logReject ==
    /\ gLogs > 0
    /\ gLogs' = gLogs - 1
    /\ gLogEv' = [last |-> "rejected", then |-> FALSE]
    /\ UNCHANGED gLoop
    /\ UNCHANGED <<lifeVars, pipeVars, colorVars, rgbVars, camVars, photoVars,
                   propVars, appVars>>

LogNext ==
    \/ LogFrame
    \/ \E frame \in LogFrames : LogCycle(frame)
    \/ logResolve
    \/ logReject
    \/ PipeTick

SpecLog == LogInit /\ [][LogNext]_vars

\* C16: the end of a log request, failed or not, leaves the detection loop
\* and what it delivered as they were; the cycle that issues a request
\* delivers its detections and requests the next frame in the same step,
\* without waiting for the request; the loop is never stopped.
C16_LogNeverBlocksLoop ==
    [][/\ gLoop' # "stopped"
       /\ gLogs' < gLogs =>
             /\ gLoop' = gLoop
             /\ UNCHANGED <<pCycle, pEnriched, gvDetections, matchedPlayers>>
       /\ gLogs' > gLogs =>
             /\ gLoop' = "scheduled"
             /\ pCycle' = "ok"
             /\ gvDetections' = pEnriched'
             /\ Len(matchedPlayers') > 0]_vars

\* C16 witness: a log request was rejected, a cycle completed after that
\* and delivered a match, another request is pending and the loop waits for
\* its next frame
C16_Witness ==
    /\ gLogEv = [last |-> "rejected", then |-> TRUE]
    /\ pCycle = "ok"
    /\ Len(matchedPlayers) > 0
    /\ gLogs > 0
    /\ gLoop = "scheduled"

\* C21: a detection whose clothingColor is 'unknown' is never flagged
\* isTarget and never produces a match, whatever the target list and the
\* roster contain.
C21_UnknownExcluded ==
    /\ \A i \in 1..Len(pEnriched) :
          pEnriched[i].clothingColor = "unknown" => ~pEnriched[i].isTarget
    /\ \A k \in 1..Len(matchedPlayers) :
          matchedPlayers[k].clothingColor # "unknown"

----------------------------------------------------------------------------
(* SpecCam: GolfVision's camera stream *)

RoundIds == {Null, "round1", "round2"}

CamInit ==
    /\ LifeInit
    /\ PropIdle
    /\ AppIdle
    /\ PipeIdle
    /\ ColorIdle
    /\ RgbIdle
    /\ LogIdle
    /\ PhotoIdle
    /\ camRoundId \in RoundIds
    /\ camStreaming = FALSE
    /\ streamRef = 0
    /\ liveStreams = {}
    /\ camPending = IF camRoundId # Null THEN 1 ELSE 0
    /\ camAcquired = 0

\* the parent renders GolfVision with another roundId: the effect on
\* [roundId] runs, if (roundId) startCameraStream(), up to its await of
\* getUserMedia
camRoundChange(rid) ==
    /\ rid # camRoundId
    /\ rid # Null => camPending < MaxPending
    /\ camRoundId' = rid
    /\ camPending' = IF rid # Null THEN camPending + 1 ELSE camPending
    /\ UNCHANGED <<camStreaming, streamRef, liveStreams, camAcquired>>
    /\ UNCHANGED <<lifeVars, pipeVars, colorVars, rgbVars, logVars, photoVars,
                   propVars, appVars>>

\* the Start Camera button, shown while !isStreaming: startCameraStream() up
\* to its await of getUserMedia
camStartButton ==
    /\ ~camStreaming
    /\ camPending < MaxPending
    /\ camPending' = camPending + 1
    /\ UNCHANGED <<camRoundId, camStreaming, streamRef, liveStreams, camAcquired>>
    /\ UNCHANGED <<lifeVars, pipeVars, colorVars, rgbVars, logVars, photoVars,
                   propVars, appVars>>

\* getUserMedia resolves with a new MediaStream: streamRef.current = stream,
\* videoRef.current.srcObject = stream, await play(), setIsStreaming(true);
\* when play() rejects the catch runs instead of setIsStreaming
startCameraStream(playOk) ==
    /\ camPending > 0
    /\ camAcquired < MaxStreams
    /\ camPending' = camPending - 1
    /\ camAcquired' = camAcquired + 1
    /\ liveStreams' = liveStreams \cup {camAcquired + 1}
    /\ streamRef' = camAcquired + 1
    /\ camStreaming' = IF playOk THEN TRUE ELSE camStreaming
    /\ UNCHANGED camRoundId
    /\ UNCHANGED <<lifeVars, pipeVars, colorVars, rgbVars, logVars, photoVars,
                   propVars, appVars>>

\* getUserMedia rejects: the catch of startCameraStream
getUserMediaReject ==
    /\ camPending > 0
    /\ camPending' = camPending - 1
    /\ UNCHANGED <<camRoundId, camStreaming, streamRef, liveStreams, camAcquired>>
    /\ UNCHANGED <<lifeVars, pipeVars, colorVars, rgbVars, logVars, photoVars,
                   propVars, appVars>>

\* the Stop button, shown while isStreaming: GolfVision.stopStream
camStopStream ==
    /\ camStreaming
    /\ liveStreams' = IF streamRef # 0 THEN liveStreams \ {streamRef} ELSE liveStreams
    /\ streamRef' = 0
    /\ camStreaming' = FALSE
    /\ UNCHANGED <<camRoundId, camPending, camAcquired>>
    /\ UNCHANGED <<lifeVars, pipeVars, colorVars, rgbVars, logVars, photoVars,
                   propVars, appVars>>

CamNext ==
    \/ \E rid \in RoundIds : camRoundChange(rid)
    \/ camStartButton
    \/ \E playOk \in BOOLEAN : startCameraStream(playOk)
    \/ getUserMediaReject
    \/ camStopStream

SpecCam == CamInit /\ [][CamNext]_vars

\* C15: the component never holds two live camera streams: when a new
\* MediaStream is acquired the earlier one has been stopped, so at most one
\* stream has live tracks, and it is the one streamRef holds.
C15_OneLiveStream ==
    /\ Cardinality(liveStreams) <= 1
    /\ \A id \in liveStreams : streamRef = id

----------------------------------------------------------------------------
(* SpecPhoto: CameraInterface as CheckinFlow renders it *)

PhotoInit ==
    /\ LifeInit
    /\ PropIdle
    /\ AppIdle
    /\ PipeIdle
    /\ ColorIdle
    /\ RgbIdle
    /\ LogIdle
    /\ CamIdle
    /\ PhotoIdle

\* a Take / Retake button of CheckinFlow: setActiveCamera(photoType); the
\* effect of CameraInterface on [isActive, photoType] then runs its isActive
\* branch: setPhoto(null), setCountdown(false), setIsReady(false), startCamera()
openCamera(t) ==
    /\ activeCamera = Null
    /\ activeCamera' = t
    /\ photo' = Null
    /\ isReady' = FALSE
    /\ UNCHANGED <<blobs, reported>>
    /\ UNCHANGED <<lifeVars, pipeVars, colorVars, rgbVars, logVars, camVars,
                   propVars, appVars>>

\* setActiveCamera(null), by onClose (the X and Use Photo buttons) or by the
\* finally of handlePhotoTaken when an upload ends; the effect runs its else
\* branch: stopCamera(), setPhoto(null)
closeCamera ==
    /\ activeCamera # Null
    /\ activeCamera' = Null
    /\ photo' = Null
    /\ isReady' = FALSE
    /\ UNCHANGED <<blobs, reported>>
    /\ UNCHANGED <<lifeVars, pipeVars, colorVars, rgbVars, logVars, camVars,
                   propVars, appVars>>

\* video.onloadedmetadata of the stream startCamera obtained: setIsReady(true)
loadedMetadata ==
    /\ activeCamera # Null
    /\ photo = Null
    /\ ~isReady
    /\ isReady' = TRUE
    /\ UNCHANGED <<activeCamera, photo, blobs, reported>>
    /\ UNCHANGED <<lifeVars, pipeVars, colorVars, rgbVars, logVars, camVars,
                   propVars, appVars>>

\* the countdown started by the Take Photo button completes: takePhoto()
\* draws the video on the canvas and calls canvas.toBlob, whose callback
\* holds the photoType of this render
takePhoto ==
    /\ activeCamera # Null
    /\ photo = Null
    /\ isReady
    /\ blobs[activeCamera] < MaxBlobs
    /\ blobs' = [blobs EXCEPT ![activeCamera] = @ + 1]
    /\ UNCHANGED <<activeCamera, photo, isReady, reported>>
    /\ UNCHANGED <<lifeVars, pipeVars, colorVars, rgbVars, logVars, camVars,
                   propVars, appVars>>

\* the callback of a toBlob call made for photo type t runs:
\* setPhoto(URL.createObjectURL(blob)), onPhotoTaken(blob, photoType),
\* stopCamera(), setCountdown(false)
toBlobCallback(t) ==
    /\ blobs[t] > 0
    /\ blobs' = [blobs EXCEPT ![t] = @ - 1]
    /\ photo' = t
    /\ reported' = reported \cup {<<t, t>>}
    /\ isReady' = FALSE
    /\ UNCHANGED activeCamera
    /\ UNCHANGED <<lifeVars, pipeVars, colorVars, rgbVars, logVars, camVars,
                   propVars, appVars>>

\* the Retake button of CameraInterface, shown with the photo: setPhoto(null),
\* setCountdown(false), startCamera()
retakePhoto ==
    /\ activeCamera # Null
    /\ photo # Null
    /\ photo' = Null
    /\ UNCHANGED <<activeCamera, isReady, blobs, reported>>
    /\ UNCHANGED <<lifeVars, pipeVars, colorVars, rgbVars, logVars, camVars,
                   propVars, appVars>>

PhotoNext ==
    \/ \E t \in photoTypes : openCamera(t)
    \/ closeCamera
    \/ loadedMetadata
    \/ takePhoto
    \/ \E t \in photoTypes : toBlobCallback(t)
    \/ retakePhoto

SpecPhoto == PhotoInit /\ [][PhotoNext]_vars

\* C17: the photo CameraInterface displays was taken for the photo type it
\* shows, also when a toBlob callback completes late, and a blob is
\* reported to onPhotoTaken under the photo type it was taken for.
C17_PhotoOfCurrentType ==
    /\ (activeCamera # Null /\ photo # Null) => photo = activeCamera
    /\ \A rp \in reported : rp[1] = rp[2]

----------------------------------------------------------------------------
(* SpecProps: the detection loop of PersonDetection under GolfVision while  *)
(* detection stays active and the parent changes the props                  *)

\* cameraPositions['fairway'].targetColors
fairwayTargetColors == <<"blue", "red", "white">>

\* cameraPositions[key].targetColors for the camera buttons modelled
cameraTargetColors == { gvTargetColors, fairwayTargetColors }

Green == Opaque(20, 200, 20)

GreenPerson ==
    [class |-> "person", score |-> 92, bbox |-> <<0, 0, 20, 5>>,
     img |-> Image(Green, Green, Gray)]

PropFrames == { <<>>, <<BluePerson>>, <<GreenPerson>>, <<FlatPerson>> }

PropRosters == { <<>> } \cup { <<q>> : q \in {pl \in Players : pl.user_id \in {"u1", "u2"}} }

PropsInit ==
    /\ LifeInit
    /\ ColorIdle
    /\ RgbIdle
    /\ LogIdle
    /\ CamIdle
    /\ PhotoIdle
    /\ AppIdle
    /\ PropIdle
    /\ pFrame = <<>>
    /\ pTargets = gvTargetColors
    /\ pRoster \in PropRosters
    /\ pRoundId = "round1"
    /\ pNow = 0
    /\ pCycle = "none"
    /\ pEnriched = <<>>
    /\ gvDetections = <<>>
    /\ matchedPlayers = <<>>
    /\ pLogged = <<>>
    /\ pRuns = 0
    /\ pPrevEnriched = <<>>
    /\ pPrevMatched = <<>>

\* the effect on [model, isActive] runs once model and isActive hold:
\* startDetection() defines detectFrame, which closes over the
\* targetClothingColors and onDetection of this render, and calls it
propsStartDetection ==
    /\ propLoop = "none"
    /\ propLoop' = "inflight"
    /\ capTargets' = pTargets
    /\ capRoster' = pRoster
    /\ propLast' = "start"
    /\ UNCHANGED pipeVars
    /\ UNCHANGED <<lifeVars, colorVars, rgbVars, logVars, camVars, photoVars, appVars>>

\* onClick={() => setCameraAngle(key)}: GolfVision renders PersonDetection
\* with targetClothingColors = cameraPositions[key].targetColors; neither
\* effect of PersonDetection has it among its dependencies, so the running
\* loop and its closure stay
setCameraAngle(targetColors) ==
    /\ pTargets' = targetColors
    /\ propLast' = "props"
    /\ UNCHANGED <<pFrame, pRoster, pRoundId, pNow, pCycle, pEnriched, gvDetections,
                   matchedPlayers, pLogged, pRuns, pPrevEnriched, pPrevMatched>>
    /\ UNCHANGED <<propLoop, capTargets, capRoster>>
    /\ UNCHANGED <<lifeVars, colorVars, rgbVars, logVars, camVars, photoVars, appVars>>

\* the parent renders GolfVision with another expectedPlayers: GolfVision
\* passes a new handleDetection as onDetection; the running loop keeps the
\* onDetection of its closure
setExpectedPlayers(roster) ==
    /\ pRoster' = roster
    /\ propLast' = "props"
    /\ UNCHANGED <<pFrame, pTargets, pRoundId, pNow, pCycle, pEnriched, gvDetections,
                   matchedPlayers, pLogged, pRuns, pPrevEnriched, pPrevMatched>>
    /\ UNCHANGED <<propLoop, capTargets, capRoster>>
    /\ UNCHANGED <<lifeVars, colorVars, rgbVars, logVars, camVars, photoVars, appVars>>

\* the animation frame fires: detectFrame() of the closure calls
\* model.detect(video)
propsAnimationFrame ==
    /\ propLoop = "scheduled"
    /\ propLoop' = "inflight"
    /\ propLast' = "frame"
    /\ UNCHANGED <<capTargets, capRoster>>
    /\ UNCHANGED pipeVars
    /\ UNCHANGED <<lifeVars, colorVars, rgbVars, logVars, camVars, photoVars, appVars>>

\* model.detect resolves with the predictions of frame: the try block of
\* the closure, with its own targetClothingColors and its own onDetection
\* (the handleDetection of the render it was started in, which matches
\* against the expectedPlayers of that render), or the catch; then
\* requestAnimationFrame(detectFrame)
propsDetectFrame(frame) ==
    LET r       == cycleBody(frame, capTargets, pNow)
        matches == matchPlayersToDetections(r.dets, capRoster, pNow)
    IN  /\ propLoop = "inflight"
        /\ pFrame' = frame
        /\ IF r.ok
           THEN /\ pCycle' = "ok"
                /\ pEnriched' = r.dets
                /\ gvDetections' = r.dets
                /\ matchedPlayers' = matches
                /\ pLogged' = IF pRoundId # Null /\ Len(matches) > 0
                              THEN logPayload(matches) ELSE <<>>
           ELSE /\ pCycle' = "error"
                /\ UNCHANGED <<pEnriched, gvDetections, matchedPlayers, pLogged>>
        /\ propLoop' = "scheduled"
        /\ propLast' = "cycle"
        /\ UNCHANGED <<capTargets, capRoster>>
        /\ UNCHANGED <<pTargets, pRoster, pRoundId, pNow, pRuns, pPrevEnriched,
                       pPrevMatched>>
        /\ UNCHANGED <<lifeVars, colorVars, rgbVars, logVars, camVars, photoVars, appVars>>

PropsNext ==
    \/ propsStartDetection
    \/ \E targetColors \in cameraTargetColors : setCameraAngle(targetColors)
    \/ \E roster \in PropRosters : setExpectedPlayers(roster)
    \/ propsAnimationFrame
    \/ \E frame \in PropFrames : propsDetectFrame(frame)

SpecProps == PropsInit /\ [][PropsNext]_vars

\* C23: a cycle uses the props current when it runs: the detections it
\* delivers are flagged against the targetClothingColors the parent passes
\* now, and they are matched by the onDetection the parent passes now (the
\* one matching against the current expectedPlayers), also when the parent
\* changed them after the loop was started.
C23_CycleUsesCurrentProps ==
    (propLast = "cycle" /\ pCycle = "ok") =>
        /\ \A i \in 1..Len(pEnriched) :
              pEnriched[i].isTarget
                  = isTargetColor(pTargets, pEnriched[i].clothingColor)
        /\ matchedPlayers = matchPlayersToDetections(pEnriched, pRoster, pNow)

----------------------------------------------------------------------------
(* SpecCapture: the camera modal CameraCapture and the MediaStreams it      *)
(* acquires                                                                 *)

MaxCalls == 3
MaxOpens == 2

\* the variables no step of CameraCapture changes
outsideCapture == <<visionVars, authVars, ckVars, rsVars, rdVars>>

CaptureInit == VisionIdle /\ CaptureIdle /\ AuthIdle /\ CheckinIdle /\ RoundIdle /\ DetailsIdle

\* stopCamera(): the tracks of the stream streamRef holds are stopped,
\* streamRef.current = null, setIsStreaming(false)
stopCamera ==
    /\ ccLive' = ccLive \ {ccStreamRef}
    /\ ccStreamRef' = 0
    /\ ccStreaming' = FALSE

\* n calls of startCamera(), each up to its await of the race between
\* getUserMedia and the 10-second timer
startCamera(n) ==
    /\ ccCalls + n <= MaxCalls
    /\ ccCalls' = ccCalls + n
    /\ ccPending' = ccPending + n

\* the parent renders the modal with isOpen true: the cleanup of the effect
\* on [isOpen] (stopCamera), then its isOpen branch, checkCameraPermission()
\* up to its await of navigator.permissions.query; the effect on
\* [facingMode, permissionState, isOpen] calls startCamera() if the
\* permission is already 'granted'
ccOpenModal ==
    /\ ~ccOpen
    /\ ccOpens < MaxOpens
    /\ ccOpens' = ccOpens + 1
    /\ ccOpen' = TRUE
    /\ stopCamera
    /\ ccQueries' = ccQueries + 1
    /\ startCamera(IF ccPermission = "granted" THEN 1 ELSE 0)
    /\ UNCHANGED <<ccPermission, ccFacing, ccLate, ccAcquired>>
    /\ UNCHANGED outsideCapture

\* navigator.permissions.query resolves with state: setPermissionState(state),
\* startCamera() if it is 'granted'; when permissionState thereby becomes
\* 'granted' while isOpen, the effect on [facingMode, permissionState, isOpen]
\* calls startCamera() as well
ccQueryResolve(state) ==
    LET direct == IF state = "granted" THEN 1 ELSE 0
        effect == IF state = "granted" /\ ccPermission # "granted" /\ ccOpen
                  THEN 1 ELSE 0
    IN  /\ ccQueries > 0
        /\ ccQueries' = ccQueries - 1
        /\ ccPermission' = state
        /\ startCamera(direct + effect)
        /\ UNCHANGED <<ccOpen, ccFacing, ccStreaming, ccStreamRef, ccLive, ccLate,
                       ccAcquired, ccOpens>>
        /\ UNCHANGED outsideCapture

\* navigator.permissions.query rejects: the catch of checkCameraPermission
\* calls startCamera()
ccQueryReject ==
    /\ ccQueries > 0
    /\ ccQueries' = ccQueries - 1
    /\ startCamera(1)
    /\ UNCHANGED <<ccOpen, ccPermission, ccFacing, ccStreaming, ccStreamRef, ccLive,
                   ccLate, ccAcquired, ccOpens>>
    /\ UNCHANGED outsideCapture

\* getUserMedia wins the race with a new MediaStream: streamRef.current =
\* stream; if (videoRef.current), which holds while the modal is rendered
\* (isOpen), srcObject = stream, await play(), setIsStreaming(true),
\* setPermissionState('granted') - and when that changes permissionState the
\* effect on [facingMode, permissionState, isOpen] calls startCamera(); when
\* play() rejects, the catch: setIsStreaming(false)
ccGetUserMediaResolve(playOk) ==
    LET id     == ccAcquired + 1
        effect == IF ccOpen /\ playOk /\ ccPermission # "granted" THEN 1 ELSE 0
    IN  /\ ccPending > 0
        /\ ccCalls + effect <= MaxCalls
        /\ ccCalls' = ccCalls + effect
        /\ ccPending' = ccPending - 1 + effect
        /\ ccAcquired' = id
        /\ ccLive' = ccLive \cup {id}
        /\ ccStreamRef' = id
        /\ ccStreaming' = IF ccOpen THEN playOk ELSE ccStreaming
        /\ ccPermission' = IF ccOpen /\ playOk THEN "granted" ELSE ccPermission
        /\ UNCHANGED <<ccOpen, ccFacing, ccQueries, ccLate, ccOpens>>
        /\ UNCHANGED outsideCapture

\* getUserMedia rejects before the timer: the catch of startCamera,
\* setIsStreaming(false), setPermissionState('denied') for a NotAllowedError
ccGetUserMediaReject(notAllowed) ==
    /\ ccPending > 0
    /\ ccPending' = ccPending - 1
    /\ ccStreaming' = FALSE
    /\ ccPermission' = IF notAllowed THEN "denied" ELSE ccPermission
    /\ UNCHANGED <<ccOpen, ccFacing, ccStreamRef, ccLive, ccQueries, ccLate,
                   ccAcquired, ccCalls, ccOpens>>
    /\ UNCHANGED outsideCapture

\* the 10-second timer wins the race: the catch of startCamera,
\* setIsStreaming(false); the getUserMedia promise stays pending
ccRaceTimeout ==
    /\ ccPending > 0
    /\ ccPending' = ccPending - 1
    /\ ccLate' = ccLate + 1
    /\ ccStreaming' = FALSE
    /\ UNCHANGED <<ccOpen, ccPermission, ccFacing, ccStreamRef, ccLive, ccQueries,
                   ccAcquired, ccCalls, ccOpens>>
    /\ UNCHANGED outsideCapture

\* a getUserMedia promise whose race was lost resolves: the MediaStream is
\* live and nothing refers to it
ccLateResolve ==
    /\ ccLate > 0
    /\ ccLate' = ccLate - 1
    /\ ccAcquired' = ccAcquired + 1
    /\ ccLive' = ccLive \cup {ccAcquired + 1}
    /\ UNCHANGED <<ccOpen, ccPermission, ccFacing, ccStreaming, ccStreamRef,
                   ccQueries, ccPending, ccCalls, ccOpens>>
    /\ UNCHANGED outsideCapture

\* a getUserMedia promise whose race was lost rejects
ccLateReject ==
    /\ ccLate > 0
    /\ ccLate' = ccLate - 1
    /\ UNCHANGED <<ccOpen, ccPermission, ccFacing, ccStreaming, ccStreamRef, ccLive,
                   ccQueries, ccPending, ccAcquired, ccCalls, ccOpens>>
    /\ UNCHANGED outsideCapture

\* the switch-camera button of the live view: setFacingMode toggles, and the
\* effect on [facingMode, permissionState, isOpen] calls startCamera() if the
\* permission is 'granted'
switchCamera ==
    /\ ccOpen
    /\ ccStreaming
    /\ ccFacing' = IF ccFacing = "user" THEN "environment" ELSE "user"
    /\ startCamera(IF ccPermission = "granted" THEN 1 ELSE 0)
    /\ UNCHANGED <<ccOpen, ccPermission, ccStreaming, ccStreamRef, ccLive, ccQueries,
                   ccLate, ccAcquired, ccOpens>>
    /\ UNCHANGED outsideCapture

\* the parent renders the modal with isOpen false, or unmounts it: the
\* cleanup of the effect on [isOpen] and its else branch, both stopCamera()
ccCloseModal ==
    /\ ccOpen
    /\ ccOpen' = FALSE
    /\ stopCamera
    /\ UNCHANGED <<ccPermission, ccFacing, ccQueries, ccPending, ccLate, ccAcquired,
                   ccCalls, ccOpens>>
    /\ UNCHANGED outsideCapture

CaptureNext ==
    \/ ccOpenModal
    \/ \E state \in {"granted", "prompt", "denied"} : ccQueryResolve(state)
    \/ ccQueryReject
    \/ \E playOk \in BOOLEAN : ccGetUserMediaResolve(playOk)
    \/ \E notAllowed \in BOOLEAN : ccGetUserMediaReject(notAllowed)
    \/ ccRaceTimeout
    \/ ccLateResolve
    \/ ccLateReject
    \/ switchCamera
    \/ ccCloseModal

SpecCapture == CaptureInit /\ [][CaptureNext]_vars

\* C24: once the modal is closed and every pending permission query and
\* getUserMedia promise has settled, no MediaStream it acquired has live
\* tracks.
C24_ClosedMeansStopped ==
    (~ccOpen /\ ccQueries = 0 /\ ccPending = 0 /\ ccLate = 0) => ccLive = {}

----------------------------------------------------------------------------
(* SpecAuth: AuthProvider                                                   *)

MaxTokens == 3
MaxPosts == 2

\* the variables no step of AuthProvider changes
outsideAuth == <<visionVars, capVars, ckVars, rsVars, rdVars>>

\* AuthProvider after construction and its first effect on [token]: with a
\* token in localStorage verifyToken() is waiting for GET /auth/me
AuthInit ==
    /\ VisionIdle /\ CaptureIdle /\ CheckinIdle /\ RoundIdle /\ DetailsIdle
    /\ authUser = 0
    /\ authToken \in {0, 1}
    /\ authLoading = (authToken # 0)
    /\ authMe = IF authToken # 0 THEN {authToken} ELSE {}
    /\ authPosts = 0
    /\ authIssued = authToken
    /\ authSince = "none"

\* login(email, password) or register(name, email, password) up to its await
\* of axios.post
authSubmit ==
    /\ authPosts < MaxPosts
    /\ authPosts' = authPosts + 1
    /\ UNCHANGED <<authUser, authToken, authLoading, authMe, authIssued, authSince>>
    /\ UNCHANGED outsideAuth

\* the POST of login / register resolves with a new token and its user:
\* localStorage.setItem, setToken(newToken), setUser(userData); the effect
\* on [token] then calls verifyToken() up to its await of GET /auth/me
authSubmitResolve ==
    /\ authPosts > 0
    /\ authIssued < MaxTokens
    /\ authPosts' = authPosts - 1
    /\ authIssued' = authIssued + 1
    /\ authToken' = authIssued + 1
    /\ authUser' = authIssued + 1
    /\ authMe' = authMe \cup {authIssued + 1}
    /\ authSince' = "login"
    /\ UNCHANGED authLoading
    /\ UNCHANGED outsideAuth

\* the POST of login / register rejects: the catch, toast.error
authSubmitReject ==
    /\ authPosts > 0
    /\ authPosts' = authPosts - 1
    /\ UNCHANGED <<authUser, authToken, authLoading, authMe, authIssued, authSince>>
    /\ UNCHANGED outsideAuth

\* logout(): localStorage.removeItem, setToken(null), setUser(null)
logout ==
    /\ authToken' = 0
    /\ authUser' = 0

\* GET /auth/me of a verifyToken() resolves with the user of the token tok it
\* was sent with: setUser(response.data), finally setLoading(false)
verifyTokenResolve(tok) ==
    /\ tok \in authMe
    /\ authMe' = authMe \ {tok}
    /\ authUser' = tok
    /\ authLoading' = FALSE
    /\ UNCHANGED <<authToken, authPosts, authIssued, authSince>>
    /\ UNCHANGED outsideAuth

\* GET /auth/me of the verifyToken() sent with token tok rejects: the catch calls logout(), finally
\* setLoading(false)
verifyTokenReject(tok) ==
    /\ tok \in authMe
    /\ authMe' = authMe \ {tok}
    /\ logout
    /\ authLoading' = FALSE
    /\ UNCHANGED <<authPosts, authIssued, authSince>>
    /\ UNCHANGED outsideAuth

\* the Logout control of an authenticated page: logout(); the effect on
\* [token] runs its else branch, setLoading(false)
authLogout ==
    /\ authUser # 0
    /\ logout
    /\ authLoading' = FALSE
    /\ authSince' = "logout"
    /\ UNCHANGED <<authMe, authPosts, authIssued>>
    /\ UNCHANGED outsideAuth

AuthNext ==
    \/ authSubmit
    \/ authSubmitResolve
    \/ authSubmitReject
    \/ \E tok \in authMe : verifyTokenResolve(tok)
    \/ \E tok \in authMe : verifyTokenReject(tok)
    \/ authLogout

SpecAuth == AuthInit /\ [][AuthNext]_vars

\* C25: user is non-null only while a token is held, and after logout() it
\* stays null until a later login or register succeeds, also when the
\* response of a GET /auth/me sent before the logout arrives after it.
C25_UserOnlyWithToken ==
    /\ authUser # 0 => authToken # 0
    /\ authSince = "logout" => authUser = 0

----------------------------------------------------------------------------
(* SpecCheckin: CheckinFlow                                                 *)

MaxCaptures == 2

\* the variables no step of CheckinFlow changes
outsideCheckin == <<visionVars, capVars, authVars, rsVars, rdVars>>

\* CheckinFlow after construction and its effect on [user], which copies a
\* saved handedness into checkinData
CheckinInit ==
    /\ VisionIdle /\ CaptureIdle /\ AuthIdle /\ RoundIdle /\ DetailsIdle
    /\ ckStep = 1
    /\ ckHanded \in BOOLEAN
    /\ ckLoading = FALSE
    /\ ckCameraOpen = FALSE
    /\ ckPhotoType = Null
    /\ ckForm = IF ckHanded THEN {"handedness"} ELSE {}
    /\ ckAnalyzing = FALSE
    /\ ckAiAnalysis = FALSE
    /\ ckShowVerification = FALSE
    /\ ckAnalyses = {}
    /\ ckSerial = 0
    /\ ckSubmit = "none"
    /\ ckDone = {}
    /\ ckEv = CkEvent("init", 1, FALSE, 0, 0)

\* canProceedFromStep(currentStep)
canProceedFromStep(currentStep) ==
    CASE currentStep = 1 -> "course" \in ckForm
      [] currentStep = 2 -> "handedness" \in ckForm
      [] currentStep = 3 -> photoTypes \subseteq ckForm /\ ~ckShowVerification
      [] currentStep = 4 -> "descriptor" \in ckForm
      [] OTHER -> TRUE

\* the part of the state only the camera modal and the analyses change
ckCameraState == <<ckCameraOpen, ckPhotoType, ckAnalyzing, ckAiAnalysis,
                   ckShowVerification, ckAnalyses, ckSerial>>

\* step 1: handleCourseSelect and the tee time input have been filled in
handleCourseSelect ==
    /\ ckStep = 1
    /\ ckForm' = ckForm \cup {"course"}
    /\ ckEv' = CkEvent("handleCourseSelect", ckStep, FALSE, ckSerial, 0)
    /\ UNCHANGED <<ckStep, ckHanded, ckLoading, ckSubmit, ckDone>>
    /\ UNCHANGED ckCameraState
    /\ UNCHANGED outsideCheckin

\* step 2: handleHandednessSelect(handedness), setCheckinData; the PUT
\* /auth/profile it sends changes no state of CheckinFlow
handleHandednessSelect ==
    /\ ckStep = 2
    /\ ckForm' = ckForm \cup {"handedness"}
    /\ ckEv' = CkEvent("handleHandednessSelect", ckStep, FALSE, ckSerial, 0)
    /\ UNCHANGED <<ckStep, ckHanded, ckLoading, ckSubmit, ckDone>>
    /\ UNCHANGED ckCameraState
    /\ UNCHANGED outsideCheckin

\* step 4: the clothing descriptor inputs have been filled in
describeClothing ==
    /\ ckStep = 4
    /\ ckForm' = ckForm \cup {"descriptor"}
    /\ ckEv' = CkEvent("describeClothing", ckStep, FALSE, ckSerial, 0)
    /\ UNCHANGED <<ckStep, ckHanded, ckLoading, ckSubmit, ckDone>>
    /\ UNCHANGED ckCameraState
    /\ UNCHANGED outsideCheckin

\* the Next button, which is nextStep on steps 1 to 3, enabled when
\* canProceedFromStep(step) && !loading
nextStep ==
    /\ ckStep \in 1..3
    /\ canProceedFromStep(ckStep)
    /\ ~ckLoading
    /\ ~ckCameraOpen
    /\ ckStep' = IF ckStep = 1 /\ ckHanded THEN 3 ELSE ckStep + 1
    /\ ckEv' = CkEvent("nextStep", ckStep, FALSE, ckSerial, 0)
    /\ UNCHANGED <<ckHanded, ckLoading, ckForm, ckSubmit, ckDone>>
    /\ UNCHANGED ckCameraState
    /\ UNCHANGED outsideCheckin

\* the Previous button, which is prevStep on steps 2 to 4 and is never
\* disabled
prevStep ==
    /\ ckStep \in 2..4
    /\ ~ckCameraOpen
    /\ ckStep' = ckStep - 1
    /\ ckEv' = CkEvent("prevStep", ckStep, FALSE, ckSerial, 0)
    /\ UNCHANGED <<ckHanded, ckLoading, ckForm, ckSubmit, ckDone>>
    /\ UNCHANGED ckCameraState
    /\ UNCHANGED outsideCheckin

\* step 3, a photo button: handlePhotoCapture(photoType); the button of the
\* front photo is disabled while analyzingPhoto
handlePhotoCapture(photoType) ==
    /\ ckStep = 3
    /\ ~ckCameraOpen
    /\ ~(ckAnalyzing /\ photoType = "front")
    /\ ckSerial < MaxCaptures
    /\ ckSerial' = ckSerial + 1
    /\ ckPhotoType' = photoType
    /\ ckCameraOpen' = TRUE
    /\ ckEv' = CkEvent("handlePhotoCapture", ckStep, FALSE, ckSerial + 1, ckSerial + 1)
    /\ UNCHANGED <<ckStep, ckHanded, ckLoading, ckForm, ckAnalyzing, ckAiAnalysis,
                   ckShowVerification, ckAnalyses, ckSubmit, ckDone>>
    /\ UNCHANGED outsideCheckin

\* CameraCapture.confirmPhoto or its demo photo: onCapture(photo), which is
\* handleCameraCapture up to its await of analyzeClothing for a front photo
\* and to its end for the other types, then onClose() = handleCameraClose
confirmPhoto ==
    LET front == ckPhotoType = "front"
    IN  /\ ckCameraOpen
        /\ ckForm' = ckForm \cup {ckPhotoType}
        /\ ckAnalyzing' = IF front THEN TRUE ELSE ckAnalyzing
        /\ ckAnalyses' = IF front
                         THEN ckAnalyses \cup {[serial |-> ckSerial, awaited |-> TRUE]}
                         ELSE ckAnalyses
        /\ ckCameraOpen' = FALSE
        /\ ckPhotoType' = Null
        /\ ckEv' = CkEvent("confirmPhoto", ckStep, TRUE, ckSerial, ckSerial)
        /\ UNCHANGED <<ckStep, ckHanded, ckLoading, ckAiAnalysis, ckShowVerification,
                       ckSerial, ckSubmit, ckDone>>
        /\ UNCHANGED outsideCheckin

\* the close button of the modal: handleCameraClose
handleCameraClose ==
    /\ ckCameraOpen
    /\ ckCameraOpen' = FALSE
    /\ ckPhotoType' = Null
    /\ ckEv' = CkEvent("handleCameraClose", ckStep, TRUE, ckSerial, ckSerial)
    /\ UNCHANGED <<ckStep, ckHanded, ckLoading, ckForm, ckAnalyzing, ckAiAnalysis,
                   ckShowVerification, ckAnalyses, ckSerial, ckSubmit, ckDone>>
    /\ UNCHANGED outsideCheckin

\* step 3, a demo photo button: handleSimulatedCapture(photoType), which
\* starts analyzeClothing for a front photo without awaiting it
handleSimulatedCapture(photoType) ==
    LET front == photoType = "front"
    IN  /\ ckStep = 3
        /\ ~ckCameraOpen
        /\ front => ckSerial < MaxCaptures
        /\ ckForm' = ckForm \cup {photoType}
        /\ ckSerial' = IF front THEN ckSerial + 1 ELSE ckSerial
        /\ ckAnalyzing' = IF front THEN TRUE ELSE ckAnalyzing
        /\ ckAnalyses' = IF front
                         THEN ckAnalyses \cup {[serial |-> ckSerial + 1, awaited |-> FALSE]}
                         ELSE ckAnalyses
        /\ ckEv' = CkEvent("handleSimulatedCapture", ckStep, FALSE, ckSerial, 0)
        /\ UNCHANGED <<ckStep, ckHanded, ckLoading, ckCameraOpen, ckPhotoType,
                       ckAiAnalysis, ckShowVerification, ckSubmit, ckDone>>
        /\ UNCHANGED outsideCheckin

\* POST /analyze-photo of the analyzeClothing call a resolves (apiRequest
\* never rejects): on success setAiAnalysis, the descriptor is filled in and
\* setShowVerification(true); finally setAnalyzingPhoto(false); then, when
\* handleCameraCapture awaited the call, it goes on with setCameraOpen(false)
\* and setCurrentPhotoType(null)
analyzeClothingDone(a, success) ==
    /\ a \in ckAnalyses
    /\ ckAnalyses' = ckAnalyses \ {a}
    /\ ckAiAnalysis' = IF success THEN TRUE ELSE ckAiAnalysis
    /\ ckForm' = IF success THEN ckForm \cup {"descriptor"} ELSE ckForm
    /\ ckShowVerification' = IF success THEN TRUE ELSE ckShowVerification
    /\ ckAnalyzing' = FALSE
    /\ ckCameraOpen' = IF a.awaited THEN FALSE ELSE ckCameraOpen
    /\ ckPhotoType' = IF a.awaited THEN Null ELSE ckPhotoType
    /\ ckEv' = CkEvent("analyzeClothingDone", ckStep, a.awaited /\ ckCameraOpen,
                       ckSerial, a.serial)
    /\ UNCHANGED <<ckStep, ckHanded, ckLoading, ckSerial, ckSubmit, ckDone>>
    /\ UNCHANGED outsideCheckin

\* the buttons of the verification panel of step 3: 'Looks Correct' does
\* setShowVerification(false), 'Needs Correction' also setStep(4)
verifyAnalysis(correct) ==
    /\ ckStep = 3
    /\ ~ckCameraOpen
    /\ ckShowVerification
    /\ ckAiAnalysis
    /\ ckShowVerification' = FALSE
    /\ ckStep' = IF correct THEN ckStep ELSE 4
    /\ ckEv' = CkEvent("verifyAnalysis", ckStep, FALSE, ckSerial, 0)
    /\ UNCHANGED <<ckHanded, ckLoading, ckCameraOpen, ckPhotoType, ckForm, ckAnalyzing,
                   ckAiAnalysis, ckAnalyses, ckSerial, ckSubmit, ckDone>>
    /\ UNCHANGED outsideCheckin

\* the Complete Check-in button of step 4: handleSubmit up to its await of
\* POST /checkin
handleSubmit ==
    /\ ckStep = 4
    /\ canProceedFromStep(4)
    /\ ~ckLoading
    /\ ckLoading' = TRUE
    /\ ckSubmit' = "checkin"
    /\ ckDone' = {}
    /\ ckEv' = CkEvent("handleSubmit", ckStep, FALSE, ckSerial, 0)
    /\ UNCHANGED <<ckStep, ckHanded, ckForm>>
    /\ UNCHANGED ckCameraState
    /\ UNCHANGED outsideCheckin

\* POST /checkin is answered: if (!checkinResult.success) setLoading(false)
\* and return, else POST /checkin/photos is sent
checkinResult(success) ==
    /\ ckSubmit = "checkin"
    /\ ckSubmit' = IF success THEN "photos" ELSE "none"
    /\ ckLoading' = success
    /\ ckDone' = IF success THEN ckDone \cup {"checkin"} ELSE ckDone
    /\ ckEv' = CkEvent(IF success THEN "checkinOk" ELSE "checkinFailed", ckStep,
                       FALSE, ckSerial, 0)
    /\ UNCHANGED <<ckStep, ckHanded, ckForm>>
    /\ UNCHANGED ckCameraState
    /\ UNCHANGED outsideCheckin

\* mutant: the result of POST /checkin/photos is not looked at
photoResult_Unchecked(success) ==
    /\ ckSubmit = "photos"
    /\ ckSubmit' = "clips"
    /\ ckLoading' = TRUE
    /\ ckDone' = IF success THEN ckDone \cup {"photos"} ELSE ckDone
    /\ ckEv' = CkEvent(IF success THEN "photosOk" ELSE "photosFailed", ckStep,
                       FALSE, ckSerial, 0)
    /\ UNCHANGED <<ckStep, ckHanded, ckForm>>
    /\ UNCHANGED ckCameraState
    /\ UNCHANGED outsideCheckin

\* POST /checkin/photos is answered: if (photoResult.success) POST
\* /demo/generate-clips is sent, else setLoading(false)
photoResult(success) ==
    /\ ckSubmit = "photos"
    /\ ckSubmit' = IF success THEN "clips" ELSE "none"
    /\ ckLoading' = success
    /\ ckDone' = IF success THEN ckDone \cup {"photos"} ELSE ckDone
    /\ ckEv' = CkEvent(IF success THEN "photosOk" ELSE "photosFailed", ckStep,
                       FALSE, ckSerial, 0)
    /\ UNCHANGED <<ckStep, ckHanded, ckForm>>
    /\ UNCHANGED ckCameraState
    /\ UNCHANGED outsideCheckin

\* POST /demo/generate-clips is answered, with success or not: setStep(5),
\* setLoading(false)
clipsResult ==
    /\ ckSubmit = "clips"
    /\ ckSubmit' = "none"
    /\ ckStep' = 5
    /\ ckLoading' = FALSE
    /\ ckEv' = CkEvent("clipsResult", ckStep, FALSE, ckSerial, 0)
    /\ UNCHANGED <<ckHanded, ckForm, ckDone>>
    /\ UNCHANGED ckCameraState
    /\ UNCHANGED outsideCheckin

CheckinNext ==
    \/ handleCourseSelect
    \/ handleHandednessSelect
    \/ describeClothing
    \/ nextStep
    \/ prevStep
    \/ \E photoType \in photoTypes : handlePhotoCapture(photoType)
    \/ confirmPhoto
    \/ handleCameraClose
    \/ \E photoType \in photoTypes : handleSimulatedCapture(photoType)
    \/ \E a \in ckAnalyses : \E success \in BOOLEAN : analyzeClothingDone(a, success)
    \/ \E correct \in BOOLEAN : verifyAnalysis(correct)
    \/ handleSubmit
    \/ \E success \in BOOLEAN : checkinResult(success)
    \/ \E success \in BOOLEAN : photoResult(success)
    \/ clipsResult

SpecCheckin == CheckinInit /\ [][CheckinNext]_vars

\* C26: the camera modal is closed only by the close or the confirmation of
\* the capture it was opened for: the end of a clothing analysis that was
\* started by an earlier capture never closes a modal opened afterwards.
C26_ClosedByOwnCapture ==
    ckEv.closed => ckEv.from = ckEv.shown

C28_HandednessStepSkipped ==
    ckHanded => ckStep # 2

----------------------------------------------------------------------------
(* SpecRound: RoundStart, its photo step                                    *)

MaxUploads == 2
MaxTaken == 5

\* the variables no step of RoundStart changes
outsideRound == <<visionVars, capVars, authVars, ckVars, rdVars>>

RoundInit == VisionIdle /\ CaptureIdle /\ AuthIdle /\ CheckinIdle /\ RoundIdle /\ DetailsIdle

\* handleStartRound, POST /checkin/start having succeeded:
\* setCurrentRound(response.data.round), setStep(2)
handleStartRound ==
    /\ rsStep = 1
    /\ rsRound' = TRUE
    /\ rsStep' = 2
    /\ rsEv' = [op |-> "handleStartRound", advanced |-> FALSE]
    /\ UNCHANGED <<rsPhotos, rsCamera, rsUploading, rsUploads, rsTaken>>
    /\ UNCHANGED outsideRound

\* a Take / Retake button of step 2, disabled while isUploading:
\* setActiveCamera(photoType)
rsOpenCamera(photoType) ==
    /\ rsStep = 2
    /\ ~rsUploading
    /\ rsCamera = Null
    /\ rsCamera' = photoType
    /\ rsEv' = [op |-> "openCamera", advanced |-> FALSE]
    /\ UNCHANGED <<rsStep, rsRound, rsPhotos, rsUploading, rsUploads, rsTaken>>
    /\ UNCHANGED outsideRound

\* onClose of CameraInterface: setActiveCamera(null)
rsCloseCamera ==
    /\ rsCamera # Null
    /\ rsCamera' = Null
    /\ rsEv' = [op |-> "closeCamera", advanced |-> FALSE]
    /\ UNCHANGED <<rsStep, rsRound, rsPhotos, rsUploading, rsUploads, rsTaken>>
    /\ UNCHANGED outsideRound

\* CameraInterface calls onPhotoTaken(blob, photoType): handlePhotoTaken up
\* to its await of the upload; completedPhotos is the one of the render the
\* handler belongs to
handlePhotoTaken ==
    /\ rsCamera # Null
    /\ rsRound
    /\ Cardinality(rsUploads) < MaxUploads
    /\ rsTaken < MaxTaken
    /\ rsTaken' = rsTaken + 1
    /\ rsUploading' = TRUE
    /\ rsUploads' = rsUploads \cup {[call |-> rsTaken + 1, type |-> rsCamera,
                                     seen |-> Cardinality(rsPhotos)]}
    /\ rsEv' = [op |-> "handlePhotoTaken", advanced |-> FALSE]
    /\ UNCHANGED <<rsStep, rsRound, rsPhotos, rsCamera>>
    /\ UNCHANGED outsideRound

\* the upload of the handlePhotoTaken call u resolves: setPhotos(prev =>
\* ({...prev, [photoType]: photo})); if (completedPhotos.length ===
\* photoTypes.length - 1) setStep(3); finally setIsUploading(false),
\* setActiveCamera(null)
uploadResolve(u) ==
    LET advance == u.seen = Cardinality(photoTypes) - 1
    IN  /\ u \in rsUploads
        /\ rsUploads' = rsUploads \ {u}
        /\ rsPhotos' = rsPhotos \cup {u.type}
        /\ rsStep' = IF advance THEN 3 ELSE rsStep
        /\ rsUploading' = FALSE
        /\ rsCamera' = Null
        /\ rsEv' = [op |-> "uploaded", advanced |-> advance /\ rsStep = 2]
        /\ UNCHANGED <<rsRound, rsTaken>>
        /\ UNCHANGED outsideRound

\* the upload of the handlePhotoTaken call u rejects: the catch, finally
\* setIsUploading(false), setActiveCamera(null)
uploadReject(u) ==
    /\ u \in rsUploads
    /\ rsUploads' = rsUploads \ {u}
    /\ rsUploading' = FALSE
    /\ rsCamera' = Null
    /\ rsEv' = [op |-> "uploadFailed", advanced |-> FALSE]
    /\ UNCHANGED <<rsStep, rsRound, rsPhotos, rsTaken>>
    /\ UNCHANGED outsideRound

\* the Continue button of step 2, shown when completedPhotos.length ===
\* photoTypes.length: setStep(3)
continueToClothing ==
    /\ rsStep = 2
    /\ Cardinality(rsPhotos) = Cardinality(photoTypes)
    /\ rsStep' = 3
    /\ rsEv' = [op |-> "continue", advanced |-> FALSE]
    /\ UNCHANGED <<rsRound, rsPhotos, rsCamera, rsUploading, rsUploads, rsTaken>>
    /\ UNCHANGED outsideRound

RoundNext ==
    \/ handleStartRound
    \/ \E photoType \in photoTypes : rsOpenCamera(photoType)
    \/ rsCloseCamera
    \/ handlePhotoTaken
    \/ \E u \in rsUploads : uploadResolve(u)
    \/ \E u \in rsUploads : uploadReject(u)
    \/ continueToClothing

SpecRound == RoundInit /\ [][RoundNext]_vars

\* C29: a photo upload moves RoundStart from step 2 to step 3 only when all
\* four photo types then have an uploaded photo; the retake of a type that was
\* uploaded already does not advance the step while another type is missing.
C29_AdvanceOnlyWhenComplete ==
    (rsEv.op = "uploaded" /\ rsEv.advanced) => rsPhotos = photoTypes

----------------------------------------------------------------------------
(* SpecDetails: RoundDetails, the simulated playback of the selected clip   *)

\* steps = duration / interval of the clip played
MaxSteps == 3
MaxPlays == 3

\* the variables no step of RoundDetails changes
outsideDetails == <<visionVars, capVars, authVars, ckVars, rsVars>>

DetailsInit == VisionIdle /\ CaptureIdle /\ AuthIdle /\ CheckinIdle /\ RoundIdle /\ DetailsIdle

\* the Play button, shown or enabled while !isVideoPlaying: playVideo(clip),
\* setIsVideoPlaying(true), setVideoProgress(0), setInterval with
\* currentProgress = 0
playVideo ==
    /\ ~rdPlaying
    /\ rdPlays < MaxPlays
    /\ rdPlays' = rdPlays + 1
    /\ rdPlaying' = TRUE
    /\ rdProgress' = 0
    /\ rdTimers' = [id \in DOMAIN rdTimers \cup {rdPlays + 1} |->
                       IF id = rdPlays + 1 THEN 0 ELSE rdTimers[id]]
    /\ rdPaused' = FALSE
    /\ UNCHANGED rdResets
    /\ UNCHANGED outsideDetails

\* the interval callback of the playVideo call id: currentProgress +=
\* progressStep, setVideoProgress(currentProgress); at 100 or more
\* clearInterval, setIsVideoPlaying(false), setVideoProgress(100) and a
\* timeout is set that resets the progress
progressInterval(id) ==
    LET currentProgress == rdTimers[id] + 1
        ended           == currentProgress >= MaxSteps
    IN  /\ id \in DOMAIN rdTimers
        /\ rdProgress' = IF ended THEN MaxSteps ELSE currentProgress
        /\ rdPlaying' = IF ended THEN FALSE ELSE rdPlaying
        /\ rdTimers' = IF ended
                       THEN [k \in DOMAIN rdTimers \ {id} |-> rdTimers[k]]
                       ELSE [rdTimers EXCEPT ![id] = currentProgress]
        /\ rdResets' = IF ended THEN rdResets + 1 ELSE rdResets
        /\ UNCHANGED <<rdPlays, rdPaused>>
        /\ UNCHANGED outsideDetails

\* the timeout set at the end of a playback fires: setVideoProgress(0)
resetProgress ==
    /\ rdResets > 0
    /\ rdResets' = rdResets - 1
    /\ rdProgress' = 0
    /\ UNCHANGED <<rdPlaying, rdTimers, rdPlays, rdPaused>>
    /\ UNCHANGED outsideDetails

\* the Pause button of the controls shown while isVideoPlaying:
\* setIsVideoPlaying(false), setVideoProgress(0)
pauseVideo ==
    /\ rdPlaying
    /\ rdPlaying' = FALSE
    /\ rdProgress' = 0
    /\ rdPaused' = TRUE
    /\ UNCHANGED <<rdTimers, rdResets, rdPlays>>
    /\ UNCHANGED outsideDetails

DetailsNext ==
    \/ playVideo
    \/ \E id \in DOMAIN rdTimers : progressInterval(id)
    \/ resetProgress
    \/ pauseVideo

SpecDetails == DetailsInit /\ [][DetailsNext]_vars

\* C30: after Pause videoProgress stays 0 and isVideoPlaying stays false
\* until Play is pressed again - the timer of the paused playback does not
\* go on updating them - and pressing Play again never leaves two timers
\* alive.
C30_PauseStopsPlayback ==
    /\ rdPaused => (rdProgress = 0 /\ ~rdPlaying)
    /\ Cardinality(DOMAIN rdTimers) <= 1

====
